---- MODULE Spec2Model ----
(***************************************************************************)
(* Hierarchical state machine runtime of MCU-tools                         *)
(* (src/statecharts_classbased: StateChart.h, StateChart.cpp, VecQueue.h). *)
(*                                                                         *)
(* The library code is modelled statement group by statement group; the    *)
(* user's state classes (event handlers, constructors = entry actions,     *)
(* destructors = exit actions) and the application are the environment:    *)
(* inside a callback they may call transition(id) and postEvent(ev), and   *)
(* a handler returns true or false.                                        *)
(*                                                                         *)
(* A StateInfo pointer is modelled by the index of the element of          *)
(* m_states it points to, nullptr by nullptr below.  A live state object   *)
(* is modelled by the id of its state class.  An Event value is modelled   *)
(* by the serial number of the postEvent/addEvent call that queued it.     *)
(***************************************************************************)
EXTENDS Integers, Sequences, FiniteSets, TLC

\* ---- bounds of the exploration ----
MaxEvents == 3      \* Spec: postEvent/addEvent calls in one run
MaxReq == 1         \* Spec: transition() calls in one run
MaxStates == 3      \* SpecT: most states a setupStates() registers
MaxEventsT == 1     \* SpecT: postEvent/addEvent calls in one run
MaxReqT == 1        \* SpecT: transition() calls in one run
MaxEventsR == 1     \* SpecR: postEvent/addEvent calls in one run
MaxReqR == 2        \* SpecR: transition() calls in one run
MaxEventsA == 1     \* SpecA: postEvent/addEvent calls in one run
MaxReqA == 3        \* SpecA: transition() calls in one run
MaxEventsL == 2     \* SpecL: postEvent/addEvent calls in one run
MaxReqL == 1        \* SpecL: transition() calls in one run
MaxEventsN == 2     \* SpecN: postEvent/addEvent calls in one run
MaxReqN == 1        \* SpecN: transition() calls in one run
MaxNest == 2        \* SpecN: processQueue activations on the call stack
MaxPush == 18       \* SpecQ: push calls in one run
MaxPopBack == 1     \* SpecQ: pop_back calls in one run
MaxNodes == 5       \* SpecS: states in an FsmNode tree
StateNoReg == 3     \* SpecReg: StateId::stateIdNo, the number of state ids
MaxCalls == 3       \* SpecReg: addState calls of setupStates()

\* ---- program constants ----
nullStateId == -1   \* FsmStaticData::nullStateId
normLimit == 15     \* VecQueue::push<normLimit = 15>

nullptr == nullStateId          \* representation of a null StateInfo* / ModelBase*

\* ---------------------------------------------------------------------------
\* FsmStaticData: the state description table
\* ---------------------------------------------------------------------------
\* StateInfo(): m_maker(nullptr); the other members are not initialised.
StateInfoDefault == [m_parentId |-> nullStateId, m_level |-> nullStateId, m_maker |-> FALSE]

StateInfo(parentId, level) == [m_parentId |-> parentId, m_level |-> level, m_maker |-> TRUE]

\* FsmStaticData(int stateNo) : m_states(stateNo)
FsmStaticData(stateNo) ==
    [m_states |-> [id \in 0 .. (stateNo - 1) |-> StateInfoDefault], m_objectSizes |-> <<>>]

\* const StateInfo* findState(int id) const
findState(setup, id) == IF setup.m_states[id].m_maker THEN id ELSE nullptr

\* int findState(const StateInfo* si) const
findStateId(si) == IF si = nullptr THEN nullStateId ELSE si

RECURSIVE PadSizes(_, _)
PadSizes(sizes, level) ==
    IF Len(sizes) <= level THEN PadSizes(Append(sizes, 0), level) ELSE sizes

addStateBase_overwriteSize(setup, stateId, parentId, size) ==
    LET level == IF stateId # parentId
                 THEN setup.m_states[findState(setup, parentId)].m_level + 1
                 ELSE 0
        padded == PadSizes(setup.m_objectSizes, level)
    IN  [m_states |-> [setup.m_states EXCEPT ![stateId] = StateInfo(parentId, level)],
         m_objectSizes |-> [padded EXCEPT ![level + 1] = size]]

\* FsmStaticData::addStateBase, for a parentId that findState finds (or
\* stateId = parentId).
addStateBase(setup, stateId, parentId, size) ==
    LET level == IF stateId # parentId
                 THEN setup.m_states[findState(setup, parentId)].m_level + 1
                 ELSE 0
        padded == PadSizes(setup.m_objectSizes, level)
        sizes == IF padded[level + 1] < size
                 THEN [padded EXCEPT ![level + 1] = size]
                 ELSE padded
    IN  [m_states |-> [setup.m_states EXCEPT ![stateId] = StateInfo(parentId, level)],
         m_objectSizes |-> sizes]

\* sizeof(StateModel<FsmDesc, State>) of the state class with this id (an input).
SizeOf(id) == id + 1

\* A setupStates() is a sequence of addState<State, Parent>() calls.  The
\* i-th call registers id i-1 with a parent registered before it, or with
\* itself as parent (addState<State>()): every forest of at most MaxStates
\* states, each labelled so that parents precede children.
SetupCalls(maxStates) ==
    UNION { { s \in [1 .. k -> 0 .. (k - 1)] : \A i \in 1 .. k : s[i] <= i - 1 }
            : k \in 1 .. maxStates }

RECURSIVE RunSetup(_, _, _)
RunSetup(setup, calls, i) ==
    IF i > Len(calls) THEN setup
    ELSE RunSetup(addStateBase(setup, i - 1, calls[i], SizeOf(i - 1)), calls, i + 1)

\* FsmSetup() : m_data(stateIdNo) { FsmDesc::setupStates(*this); }
\* enum StateId has one value more than setupStates() registers: the last id
\* is a state id without a registered state.
FsmSetup(calls) == RunSetup(FsmStaticData(Len(calls) + 1), calls, 1)

\* ---------------------------------------------------------------------------
\* VecQueue
\* ---------------------------------------------------------------------------
VecQueue == [m_store |-> <<>>, m_headPos |-> 0]

VecQueue_empty(q) == q.m_store = <<>>

VecQueue_size(q) == Len(q.m_store) - q.m_headPos

\* check_empty without the reset.
check_empty_keep(q) == q

check_empty(q) ==
    IF q.m_headPos = Len(q.m_store) THEN [m_store |-> <<>>, m_headPos |-> 0] ELSE q

\* checkRenormalization erasing the prefix but leaving m_headPos.
checkRenormalization_keepHead(q) ==
    IF q.m_headPos > Len(q.m_store) \div 2
    THEN [m_store |-> SubSeq(q.m_store, q.m_headPos + 1, Len(q.m_store)),
          m_headPos |-> q.m_headPos]
    ELSE q

checkRenormalization(q) ==
    IF q.m_headPos > Len(q.m_store) \div 2
    THEN [m_store |-> SubSeq(q.m_store, q.m_headPos + 1, Len(q.m_store)), m_headPos |-> 0]
    ELSE q

VecQueue_push(q, el) ==
    LET r == IF Len(q.m_store) > normLimit THEN checkRenormalization(q) ELSE q
    IN  [r EXCEPT !.m_store = Append(r.m_store, el)]

VecQueue_pop(q) == check_empty([q EXCEPT !.m_headPos = q.m_headPos + 1])

\* m_store[m_headPos]: the index is inside the vector iff FrontInside.
FrontInside(q) == q.m_headPos < Len(q.m_store)
VecQueue_front_back(q) == q.m_store[Len(q.m_store)]
VecQueue_front(q) == q.m_store[q.m_headPos + 1]

VecQueue_pop_back(q) ==
    check_empty([q EXCEPT !.m_store = SubSeq(q.m_store, 1, Len(q.m_store) - 1)])

NoCalls == [seq |-> <<>>, pops |-> 0, popBacks |-> 0, renorms |-> 0]

\* push takes the branch of checkRenormalization that erases the prefix.
Renormalizes(q) == Len(q.m_store) > normLimit /\ q.m_headPos > Len(q.m_store) \div 2

\* The elements from the head position on, oldest first.
Pending(q) == SubSeq(q.m_store, q.m_headPos + 1, Len(q.m_store))

\* ---------------------------------------------------------------------------
\* StateChart3.h: FsmNode trees, TraverseNodes, FsmStatic
\* ---------------------------------------------------------------------------
\* A tree is [id, Nodes]: State<StateType, id> has Nodes = <<>>,
\* FsmNode<State, Nodes...> has the sequence of its sub-nodes (at least one:
\* TraverseNodes<> and the fold of FsmArea do not compile for an empty pack).
\* The shape of a tree is the sequence of the shapes of its sub-nodes.
RECURSIVE Forests(_)
Forests(m) ==
    IF m = 0 THEN {<<>>}
    ELSE UNION { { <<t>> \o f : t \in Forests(k - 1), f \in Forests(m - k) } : k \in 1 .. m }

\* State ids that do not follow the order of the tree: the k-th sub-node of
\* the state with id p has id p * (MaxNodes + 1) + k.
RECURSIVE Label(_, _)
Label(shape, id) ==
    [id |-> id,
     Nodes |-> [k \in 1 .. Len(shape) |-> Label(shape[k], id * (MaxNodes + 1) + k)]]

RootNodes == { Label(shape, 1) : shape \in UNION { Forests(n - 1) : n \in 1 .. MaxNodes } }

\* FsmArea::area = 1 + (... + Nodes::area); State::area = 1.
RECURSIVE area(_)
RECURSIVE areaSum(_)
areaSum(nodes) == IF nodes = <<>> THEN 0 ELSE area(Head(nodes)) + areaSum(Tail(nodes))
area(node) == 1 + areaSum(node.Nodes)

\* TraverseNodes<Node, Nodes...>::writeIndex2Id (Pack) and the
\* specialisations for State and FsmNode (one node).
RECURSIVE writeIndex2Id(_, _, _)
RECURSIVE writeIndex2IdPack(_, _, _)
writeIndex2IdPack(array, nodes, baseOffset) ==
    IF Len(nodes) = 1 THEN writeIndex2Id(array, Head(nodes), baseOffset)
    ELSE writeIndex2IdPack(writeIndex2Id(array, Head(nodes), baseOffset), Tail(nodes),
                           baseOffset + area(Head(nodes)))
writeIndex2Id(array, node, baseOffset) ==
    IF node.Nodes = <<>> THEN [array EXCEPT ![baseOffset] = node.id]
    ELSE writeIndex2IdPack([array EXCEPT ![baseOffset] = node.id], node.Nodes, baseOffset + 1)

\* FsmNode variant passing the sub-nodes the parent of the node itself.
RECURSIVE writeParentIndex_sameParent(_, _, _, _)
RECURSIVE writeParentIndexPack_sameParent(_, _, _, _)
writeParentIndexPack_sameParent(parentArray, nodes, baseOffset, parent) ==
    IF Len(nodes) = 1 THEN writeParentIndex_sameParent(parentArray, Head(nodes), baseOffset, parent)
    ELSE writeParentIndexPack_sameParent(
             writeParentIndex_sameParent(parentArray, Head(nodes), baseOffset, parent),
             Tail(nodes), baseOffset + area(Head(nodes)), parent)
writeParentIndex_sameParent(parentArray, node, baseOffset, parent) ==
    IF node.Nodes = <<>> THEN [parentArray EXCEPT ![baseOffset] = parent]
    ELSE writeParentIndexPack_sameParent([parentArray EXCEPT ![baseOffset] = parent], node.Nodes,
                                         baseOffset + 1, parent)

RECURSIVE writeParentIndex(_, _, _, _)
RECURSIVE writeParentIndexPack(_, _, _, _)
writeParentIndexPack(parentArray, nodes, baseOffset, parent) ==
    IF Len(nodes) = 1 THEN writeParentIndex(parentArray, Head(nodes), baseOffset, parent)
    ELSE writeParentIndexPack(writeParentIndex(parentArray, Head(nodes), baseOffset, parent),
                              Tail(nodes), baseOffset + area(Head(nodes)), parent)
writeParentIndex(parentArray, node, baseOffset, parent) ==
    IF node.Nodes = <<>> THEN [parentArray EXCEPT ![baseOffset] = parent]
    ELSE writeParentIndexPack([parentArray EXCEPT ![baseOffset] = parent], node.Nodes,
                              baseOffset + 1, baseOffset)

\* writeLevelIndex returns the largest level written; the result here is
\* [levelArray, ret].
RECURSIVE writeLevelIndex(_, _, _, _)
RECURSIVE writeLevelIndexPack(_, _, _, _)
writeLevelIndexPack(levelArray, nodes, baseOffset, level) ==
    IF Len(nodes) = 1 THEN writeLevelIndex(levelArray, Head(nodes), baseOffset, level)
    ELSE LET t1 == writeLevelIndex(levelArray, Head(nodes), baseOffset, level)
             t2 == writeLevelIndexPack(t1.levelArray, Tail(nodes),
                                       baseOffset + area(Head(nodes)), level)
         IN  [levelArray |-> t2.levelArray, ret |-> IF t1.ret < t2.ret THEN t2.ret ELSE t1.ret]
writeLevelIndex(levelArray, node, baseOffset, level) ==
    IF node.Nodes = <<>>
    THEN [levelArray |-> [levelArray EXCEPT ![baseOffset] = level], ret |-> level]
    ELSE writeLevelIndexPack([levelArray EXCEPT ![baseOffset] = level], node.Nodes,
                             baseOffset + 1, level + 1)

\* FsmStatic<Root>::stateNo and the three initialisers of its static members.
stateNo(Root) == area(Root)

initIndex2Id(Root) ==
    writeIndex2Id([i \in 0 .. (stateNo(Root) - 1) |-> 0], Root, 0)

initParentIndex(Root) ==
    writeParentIndex([i \in 0 .. (stateNo(Root) - 1) |-> 255], Root, 0, 0)

initLevels(Root) ==
    LET res == writeLevelIndex([i \in 0 .. (stateNo(Root) - 1) |-> 0], Root, 0, 0)
    IN  [maxLevel |-> res.ret, levelIndex |-> res.levelArray]

\* No FsmStatic is instantiated.
NoFsmStatic == [Root |-> <<>>, done |-> {}, index2Id |-> <<>>, parentIndex |-> <<>>,
                levels |-> [maxLevel |-> 0, levelIndex |-> <<>>]]

\* ---------------------------------------------------------------------------
\* State
\* ---------------------------------------------------------------------------
VARIABLES
    limits,         \* the run's budget of postEvent/addEvent and transition() calls
    m_setup,        \* FsmBaseMember::m_setup (the FsmStaticData of the machine type)
    m_stackFrames,  \* FsmBaseMember::m_stackFrames: per level m_stateInfo, m_activeState
    m_currentInfo,  \* FsmBaseMember::m_currentInfo
    m_nextState,    \* FsmBaseMember::m_nextState
    m_eventQueue,   \* FsmBaseEvent::m_eventQueue
    callStack,      \* the activations of setStartState / processQueue, innermost last
    ub,             \* "none", or the undefined behaviour the run has hit
    nPosted,        \* history: number of postEvent/addEvent calls
    nReq,           \* history: number of transition() calls
    deliv,          \* history: events in the order they reached a leaf handler
    disp,           \* history: the dispatch (processEvent call) in progress or last finished
    trans,          \* history: the setupTransition/doTransition in progress or last finished
    lastRet,        \* history: the application's call that returned last
    origin,         \* history: origin[e] is the event in dispatch when e was posted, 0 if none
    lastTrans,      \* history: target of the last completed transition and the event it ran in
    life,           \* lifetime of the machine object: "setup" (FsmSetup running, no machine
                    \* yet), "alive", "dying" (destructor running), "dead"
    regCalls,       \* history: the addState calls setupStates() has made, <<stateId, parentId>>
    everStarted,    \* history: setStartState has been called
    entered,        \* history: per state id, constructors completed minus destructors completed
    ideal,          \* history of the VecQueue calls of SpecQ: seq, the elements an ideal
                    \* queue holds, oldest first; pops, popBacks: calls made; renorms:
                    \* push calls that erased the consumed prefix
    fsmStatic       \* FsmStatic<Root> of SpecS: Root, the FsmNode tree, and the static
                    \* members index2Id, parentIndex, levels once initialised

vars == <<limits, m_setup, m_stackFrames, m_currentInfo, m_nextState, m_eventQueue, callStack, ub,
          nPosted, nReq, deliv, disp, trans, lastRet, origin, lastTrans, life, regCalls, everStarted, entered,
          ideal, fsmStatic>>

\* LevelData(size): m_stateInfo(nullptr), m_activeState(nullptr)
LevelData == [m_stateInfo |-> nullptr, m_activeState |-> nullptr]

\* const StateInfo*& stateInfo(int level) / stateInfoAtLevel(level)
stateInfo(frames, level) == frames[level + 1].m_stateInfo

\* ModelBase* getModelBase(int level)
getModelBase(frames, level) == frames[level + 1].m_activeState

StateIds == DOMAIN m_setup.m_states
Level(si) == m_setup.m_states[si].m_level
Parent(si) == findState(m_setup, m_setup.m_states[si].m_parentId)

\* si and its ancestors by the parent ids of the table, root first.
RECURSIVE ChainOf(_)
ChainOf(si) == IF Level(si) > 0 THEN Append(ChainOf(Parent(si)), si) ELSE <<si>>

\* The states recorded at levels 0 .. level of cur (<<>> for nullptr).
Chain(frames, cur) ==
    IF cur = nullptr THEN <<>> ELSE [l \in 1 .. (Level(cur) + 1) |-> frames[l].m_stateInfo]

Frame(op, pc, outer) ==
    [op |-> op, pc |-> pc, outer |-> outer, ev |-> 0, level |-> 0, eventHandled |-> FALSE,
     nextInfo |-> nullptr, targetLevel |-> 0, tlevel |-> 0, ret |-> "", cb |-> nullptr]

\* ev: the event; frames, cur: m_stackFrames and m_currentInfo when processEvent
\* started; seen: the handlers that returned, in order; walkLast, walkPrev: the
\* ids of the last two transition() calls made by handlers; actReq: an entry or
\* exit action called transition(); actLast: the id of the last such call since
\* possiblyDoTransition last read m_nextState; first, firstLeaf: the target of
\* the first doTransition of this event and m_currentInfo when it returned.
NoDisp == [ev |-> 0, frames |-> <<>>, cur |-> nullptr, seen |-> <<>>,
           walkLast |-> nullStateId, walkPrev |-> nullStateId, actReq |-> FALSE,
           actLast |-> nullStateId,
           first |-> nullptr, firstLeaf |-> nullptr]

\* op: "start" (setStartState), "restart" (setStartState on a started machine),
\* "transition" (doTransition), "cleanup"; src: the chain before; tgt: the target;
\* log: the entry and exit actions run so far; done: the operation has returned.
NoTrans == [op |-> "none", src |-> <<>>, tgt |-> nullptr, log |-> <<>>, done |-> TRUE]

NoLast == [tgt |-> nullptr, ev |-> 0]

\* op: the call; ev: the event it queued (0 if none); wasEmpty: the queue was
\* empty when postEvent was called.
NoRet == [op |-> "none", wasEmpty |-> FALSE, ev |-> 0]

InitMachine_firstStateCurrent ==
    /\ m_stackFrames = <<>>
    /\ m_currentInfo = 0
    /\ m_nextState = nullStateId
    /\ m_eventQueue = VecQueue
    /\ callStack = <<>>
    /\ ub = "none"
    /\ nPosted = 0
    /\ nReq = 0
    /\ deliv = <<>>
    /\ disp = NoDisp
    /\ trans = NoTrans
    /\ lastRet = NoRet
    /\ life = "alive"
    /\ everStarted = FALSE
    /\ entered = [id \in StateIds |-> 0]
    /\ origin = <<>>
    /\ lastTrans = NoLast
    /\ regCalls = <<>>
    /\ ideal = NoCalls
    /\ fsmStatic = NoFsmStatic

\* FsmBaseMember(setup): m_setup(setup); m_currentInfo = nullptr and
\* m_nextState = nullStateId by their member initialisers; m_stackFrames and
\* m_eventQueue are empty.
InitMachine ==
    /\ m_stackFrames = <<>>
    /\ m_currentInfo = nullptr
    /\ m_nextState = nullStateId
    /\ m_eventQueue = VecQueue
    /\ callStack = <<>>
    /\ ub = "none"
    /\ nPosted = 0
    /\ nReq = 0
    /\ deliv = <<>>
    /\ disp = NoDisp
    /\ trans = NoTrans
    /\ lastRet = NoRet
    /\ life = "alive"
    /\ everStarted = FALSE
    /\ entered = [id \in StateIds |-> 0]
    /\ origin = <<>>
    /\ lastTrans = NoLast
    /\ regCalls = <<>>
    /\ ideal = NoCalls
    /\ fsmStatic = NoFsmStatic

\* The machines of the repository's tests: TestFsmDescription::setupStates
\* (state1 and state2 roots, state3 a child of state1) and
\* UserFsmDesc::setupStates (state1 <- state2 <- state3).
TestSetupCalls == { <<0, 1, 0>>, <<0, 0, 1>> }

\* A root with two children: the smallest machine with sibling states.
SiblingSetupCalls == { <<0, 0, 0>> }

\* Spec: the test machines and the sibling machine, driven by up to MaxEvents
\* events and MaxReq transition requests.
Init ==
    /\ limits = [events |-> MaxEvents, reqs |-> MaxReq]
    /\ m_setup \in { FsmSetup(calls) : calls \in TestSetupCalls \cup SiblingSetupCalls }
    /\ InitMachine

\* SpecT: every state forest of up to MaxStates states, driven by up to
\* MaxEventsT events and MaxReqT transition requests.
InitT ==
    /\ limits = [events |-> MaxEventsT, reqs |-> MaxReqT]
    /\ m_setup \in { FsmSetup(calls) : calls \in SetupCalls(MaxStates) }
    /\ InitMachine

\* SpecR: the machines of Spec, driven by up to MaxEventsR events and MaxReqR
\* transition requests.
InitR ==
    /\ limits = [events |-> MaxEventsR, reqs |-> MaxReqR]
    /\ m_setup \in { FsmSetup(calls) : calls \in TestSetupCalls \cup SiblingSetupCalls }
    /\ InitMachine

Top == callStack[Len(callStack)]
Goto(f) == callStack' = [callStack EXCEPT ![Len(callStack)] = f]
At(pc) == ub = "none" /\ callStack # <<>> /\ Top.pc = pc

\* Control is in the application (no call in progress) or in user code of a
\* state class (handler, constructor, destructor).
InApplication == ub = "none" /\ life = "alive" /\ callStack = <<>>
InCallback == ub = "none" /\ callStack # <<>> /\ Top.pc \in {"handler", "entry", "exit"}

\* ---------------------------------------------------------------------------
\* Queries: activeStateId, currentStateId, currentState<State>, activeState<State>
\* ---------------------------------------------------------------------------
\* A pointer to a state object is the id of the state class of the object.
activeStateInfo == m_currentInfo
activeStateId == findStateId(m_currentInfo)
currentStateId == activeStateId

\* FsmBase::currentState<State>()
currentState(State) ==
    IF State # activeStateId THEN nullptr
    ELSE getModelBase(m_stackFrames, Level(activeStateInfo))

activeState_deeperOrEqual(targetId) ==
    IF m_currentInfo = nullptr THEN nullptr
    ELSE LET currentLevel == Level(m_currentInfo)
             targetInfo == findState(m_setup, targetId)
             targetLevel == Level(targetInfo)
         IN  IF targetLevel >= currentLevel THEN nullptr
             ELSE IF stateInfo(m_stackFrames, targetLevel) # targetInfo THEN nullptr
             ELSE getModelBase(m_stackFrames, targetLevel)

\* FsmBaseMember::activeState(int targetId) and FsmBase::activeState<State>(),
\* for a registered targetId.
activeState(targetId) ==
    IF m_currentInfo = nullptr THEN nullptr
    ELSE LET currentLevel == Level(m_currentInfo)
             targetInfo == findState(m_setup, targetId)
             targetLevel == Level(targetInfo)
         IN  IF targetLevel > currentLevel THEN nullptr
             ELSE IF stateInfo(m_stackFrames, targetLevel) # targetInfo THEN nullptr
             ELSE getModelBase(m_stackFrames, targetLevel)

\* ---------------------------------------------------------------------------
\* doEntry / doExit
\* ---------------------------------------------------------------------------
\* doEntry, first half: newState->m_maker(store, fsm) runs the constructor of
\* the state class (the entry action); the slot pointer is not yet assigned.
CallEntry(f, newState, ret) == [f EXCEPT !.pc = "entry", !.cb = newState, !.ret = ret]

LogEntry(newState) ==
    [trans EXCEPT !.log = Append(@, [k |-> "entry", s |-> newState, l |-> Level(newState)])]

\* doExit: m_activeState.reset(nullptr) stores nullptr and then destroys the
\* object the slot held, if any (the destructor is the exit action).
ExitFrames(currState) ==
    [m_stackFrames EXCEPT ![Level(currState) + 1].m_activeState = nullptr]

CallExit(f, currState, ret) ==
    LET old == getModelBase(m_stackFrames, Level(currState))
    IN  IF old = nullptr THEN [f EXCEPT !.pc = ret]
        ELSE [f EXCEPT !.pc = "exit", !.cb = old, !.ret = ret]

LogExit(currState) ==
    LET old == getModelBase(m_stackFrames, Level(currState))
    IN  IF old = nullptr THEN trans
        ELSE [trans EXCEPT !.log = Append(@, [k |-> "exit", s |-> old, l |-> Level(currState)])]

\* The destructor returns: doExit returns to its caller.
ExitReturn ==
    /\ At("exit")
    /\ Goto([Top EXCEPT !.pc = Top.ret, !.ret = "", !.cb = nullptr])
    /\ entered' = [entered EXCEPT ![Top.cb] = @ - 1]
    /\ UNCHANGED <<limits, ideal, fsmStatic, regCalls, life, everStarted, m_setup, m_stackFrames, m_currentInfo, m_nextState, m_eventQueue, ub,
                   nPosted, origin, nReq, deliv, lastTrans, disp, trans, lastRet>>

\* The constructor returns: doEntry, second half, m_activeState.reset(p).
\* reset() on a slot that still holds an object runs the placement destroyer
\* on the storage the new object was just built in.
EntryReturn ==
    /\ At("entry")
    /\ LET level == Level(Top.cb)
       IN  IF getModelBase(m_stackFrames, level) # nullptr
           THEN /\ ub' = "doEntry: slot occupied"
                /\ UNCHANGED <<m_stackFrames, callStack, entered>>
           ELSE /\ m_stackFrames' = [m_stackFrames EXCEPT ![level + 1].m_activeState = Top.cb]
                /\ Goto([Top EXCEPT !.pc = Top.ret, !.ret = "", !.cb = nullptr])
                /\ entered' = [entered EXCEPT ![Top.cb] = @ + 1]
                /\ ub' = ub
    /\ UNCHANGED <<limits, ideal, fsmStatic, regCalls, life, everStarted, m_setup, m_currentInfo, m_nextState, m_eventQueue,
                   nPosted, origin, nReq, deliv, lastTrans, disp, trans, lastRet>>

\* ---------------------------------------------------------------------------
\* FsmBase::setStartState -> FsmBaseMember::setStartState -> setupTransition
\* ---------------------------------------------------------------------------
\* setupTransition, first loop: record nextInfo and its ancestors in the frames.
RECURSIVE SetupChain(_, _)
SetupChain(frames, nextInfo) ==
    LET f == [frames EXCEPT ![Level(nextInfo) + 1].m_stateInfo = nextInfo]
    IN  IF Level(nextInfo) > 0 THEN SetupChain(f, Parent(nextInfo)) ELSE f

\* A level of the frames holds a state object.
Occupied(frames) == { l \in 1 .. Len(frames) : frames[l].m_activeState # nullptr }

\* The application calls setStartState. "m_currentInfo = nullptr;
\* m_stackFrames.clear();" then the frames are built from sizes(), the chain of
\* id is recorded and the root is entered. clear() destroys every LevelData:
\* its members go in reverse order of declaration, m_stateStorage first, so a
\* state object a level still holds is destroyed after its storage was freed.
setStartState(id) ==
    /\ InApplication
    /\ findState(m_setup, id) # nullptr
    /\ everStarted' = TRUE
    /\ IF Occupied(m_stackFrames) # {}
       THEN /\ m_currentInfo' = nullptr
            /\ ub' = "~LevelData: state object destroyed after its storage"
            /\ trans' = [op |-> "restart", src |-> Chain(m_stackFrames, m_currentInfo),
                         tgt |-> id, done |-> FALSE, log |-> <<>>]
            /\ UNCHANGED <<m_stackFrames, callStack>>
       ELSE LET frames == SetupChain([l \in 1 .. Len(m_setup.m_objectSizes) |-> LevelData], id)
                root == stateInfo(frames, 0)
            IN  /\ m_stackFrames' = frames
                /\ m_currentInfo' = root
                /\ callStack' = <<CallEntry([Frame("setStartState", "su", "setStartState")
                                               EXCEPT !.targetLevel = Level(id)], root, "su")>>
                /\ trans' = [op |-> "start", src |-> <<>>, tgt |-> id, done |-> FALSE,
                             log |-> <<[k |-> "entry", s |-> root, l |-> 0]>>]
                /\ ub' = ub
    /\ lastRet' = NoRet
    /\ UNCHANGED <<limits, ideal, fsmStatic, regCalls, life, entered, m_setup, m_nextState, m_eventQueue, nPosted, origin, nReq, deliv, lastTrans, disp>>

setupTransition_direct ==
    /\ At("su")
    /\ IF Level(m_currentInfo) < Top.targetLevel
       THEN LET next == stateInfo(m_stackFrames, Top.targetLevel)
            IN  /\ m_currentInfo' = next
                /\ Goto(CallEntry(Top, next, "su"))
                /\ trans' = LogEntry(next)
                /\ UNCHANGED <<lastRet, lastTrans>>
       ELSE /\ callStack' = SubSeq(callStack, 1, Len(callStack) - 1)
            /\ trans' = [trans EXCEPT !.done = TRUE]
            /\ lastRet' = [NoRet EXCEPT !.op = "setStartState"]
            /\ lastTrans' = [tgt |-> trans.tgt, ev |-> 0]
            /\ UNCHANGED m_currentInfo
    /\ UNCHANGED <<limits, ideal, fsmStatic, regCalls, life, everStarted, entered, m_setup, m_stackFrames, m_nextState, m_eventQueue, ub,
                   nPosted, origin, nReq, deliv, disp>>

\* setStartState discarding what its entry actions requested.
setupTransition_dropRequest ==
    /\ At("su")
    /\ IF Level(m_currentInfo) < Top.targetLevel
       THEN LET next == stateInfo(m_stackFrames, Level(m_currentInfo) + 1)
            IN  /\ m_currentInfo' = next
                /\ Goto(CallEntry(Top, next, "su"))
                /\ trans' = LogEntry(next)
                /\ UNCHANGED <<lastRet, lastTrans, m_nextState>>
       ELSE /\ callStack' = SubSeq(callStack, 1, Len(callStack) - 1)
            /\ trans' = [trans EXCEPT !.done = TRUE]
            /\ lastRet' = [NoRet EXCEPT !.op = "setStartState"]
            /\ lastTrans' = [tgt |-> trans.tgt, ev |-> 0]
            /\ m_nextState' = nullStateId
            /\ UNCHANGED m_currentInfo
    /\ UNCHANGED <<limits, ideal, fsmStatic, regCalls, life, everStarted, entered, m_setup, m_stackFrames, m_eventQueue, ub,
                   nPosted, origin, nReq, deliv, disp>>

\* setupTransition, second loop; at its end setStartState returns.
setupTransition ==
    /\ At("su")
    /\ IF Level(m_currentInfo) < Top.targetLevel
       THEN LET next == stateInfo(m_stackFrames, Level(m_currentInfo) + 1)
            IN  /\ m_currentInfo' = next
                /\ Goto(CallEntry(Top, next, "su"))
                /\ trans' = LogEntry(next)
                /\ UNCHANGED <<lastRet, lastTrans>>
       ELSE /\ callStack' = SubSeq(callStack, 1, Len(callStack) - 1)
            /\ trans' = [trans EXCEPT !.done = TRUE]
            /\ lastRet' = [NoRet EXCEPT !.op = "setStartState"]
            /\ lastTrans' = [tgt |-> trans.tgt, ev |-> 0]
            /\ UNCHANGED m_currentInfo
    /\ UNCHANGED <<limits, ideal, fsmStatic, regCalls, life, everStarted, entered, m_setup, m_stackFrames, m_nextState, m_eventQueue, ub,
                   nPosted, origin, nReq, deliv, disp>>

\* ---------------------------------------------------------------------------
\* StateBase::transition -> FsmBaseMember::transition, called by user code
\* ---------------------------------------------------------------------------
transition_firstWins(id) ==
    /\ InCallback
    /\ nReq < limits.reqs
    /\ m_nextState' = IF m_nextState = nullStateId THEN id ELSE m_nextState
    /\ nReq' = nReq + 1
    /\ disp' = IF Top.pc = "handler"
               THEN [disp EXCEPT !.walkLast = id, !.walkPrev = disp.walkLast]
               ELSE [disp EXCEPT !.actReq = TRUE, !.actLast = id]
    /\ UNCHANGED <<limits, ideal, fsmStatic, regCalls, life, everStarted, entered, m_setup, m_stackFrames, m_currentInfo, m_eventQueue, callStack, ub,
                   nPosted, origin, deliv, lastTrans, trans, lastRet>>

transition_immediate(id) ==
    /\ InCallback
    /\ nReq < limits.reqs
    /\ m_nextState' = nullStateId
    /\ m_currentInfo' = IF findState(m_setup, id) # nullptr THEN id ELSE m_currentInfo
    /\ nReq' = nReq + 1
    /\ disp' = IF Top.pc = "handler"
               THEN [disp EXCEPT !.walkLast = id, !.walkPrev = disp.walkLast]
               ELSE [disp EXCEPT !.actReq = TRUE, !.actLast = id]
    /\ UNCHANGED <<limits, ideal, fsmStatic, regCalls, life, everStarted, entered, m_setup, m_stackFrames, m_eventQueue, callStack, ub,
                   nPosted, origin, deliv, lastTrans, trans, lastRet>>

transition(id) ==
    /\ InCallback
    /\ nReq < limits.reqs
    /\ m_nextState' = id
    /\ nReq' = nReq + 1
    /\ disp' = IF Top.pc = "handler"
               THEN [disp EXCEPT !.walkLast = id, !.walkPrev = disp.walkLast]
               ELSE [disp EXCEPT !.actReq = TRUE, !.actLast = id]
    /\ UNCHANGED <<limits, ideal, fsmStatic, regCalls, life, everStarted, entered, m_setup, m_stackFrames, m_currentInfo, m_eventQueue, callStack, ub,
                   nPosted, origin, deliv, lastTrans, trans, lastRet>>

\* ---------------------------------------------------------------------------
\* FsmBaseEvent: postEvent, addEvent, processQueue
\* ---------------------------------------------------------------------------
\* postEvent: "if (empty) processQueue();"
shouldProcess_always(empty) == TRUE
shouldProcess_inverted(empty) == ~empty
shouldProcess(empty) == empty

\* The event whose processEvent call the running user code belongs to; 0 in
\* the application and in the entry actions of setStartState.
InDispatch == IF callStack # <<>> /\ Top.op = "processQueue" THEN Top.ev ELSE 0

\* postEvent, called by the application or by user code of a state class.
postEvent ==
    /\ InApplication \/ InCallback
    /\ life = "alive"
    /\ nPosted < limits.events
    /\ LET ev == nPosted + 1
           empty == VecQueue_empty(m_eventQueue)
           outer == IF callStack = <<>> THEN "postEvent" ELSE "nested"
       IN  /\ m_eventQueue' = VecQueue_push(m_eventQueue, ev)
           /\ nPosted' = ev
           /\ origin' = Append(origin, InDispatch)
           /\ IF shouldProcess(empty)
              THEN /\ callStack' = Append(callStack, Frame("processQueue", "pq", outer))
                   /\ lastRet' = IF callStack = <<>> THEN [NoRet EXCEPT !.ev = ev] ELSE lastRet
              ELSE /\ callStack' = callStack
                   /\ lastRet' = IF callStack = <<>>
                                 THEN [op |-> "postEvent", wasEmpty |-> empty, ev |-> ev]
                                 ELSE lastRet
    /\ trans' = IF callStack = <<>> THEN NoTrans ELSE trans
    /\ UNCHANGED <<limits, ideal, fsmStatic, regCalls, life, everStarted, entered, m_setup, m_stackFrames, m_currentInfo, m_nextState, ub,
                   nReq, deliv, lastTrans, disp>>

\* addEvent, called by the application.
addEvent ==
    /\ InApplication
    /\ nPosted < limits.events
    /\ m_eventQueue' = VecQueue_push(m_eventQueue, nPosted + 1)
    /\ nPosted' = nPosted + 1
    /\ origin' = Append(origin, 0)
    /\ lastRet' = [op |-> "addEvent", wasEmpty |-> FALSE, ev |-> nPosted + 1]
    /\ trans' = NoTrans
    /\ UNCHANGED <<limits, ideal, fsmStatic, regCalls, life, everStarted, entered, m_setup, m_stackFrames, m_currentInfo, m_nextState, callStack, ub,
                   nReq, deliv, lastTrans, disp>>

\* processQueue, called by the application.
processQueue ==
    /\ InApplication
    /\ callStack' = <<Frame("processQueue", "pq", "processQueue")>>
    /\ lastRet' = NoRet
    /\ trans' = NoTrans
    /\ UNCHANGED <<limits, ideal, fsmStatic, regCalls, life, everStarted, entered, m_setup, m_stackFrames, m_currentInfo, m_nextState, m_eventQueue, ub,
                   nPosted, origin, nReq, deliv, lastTrans, disp>>

\* processQueue: "while (!m_eventQueue.empty()) { Event ev = m_eventQueue.front();"
processQueue_loop ==
    /\ At("pq")
    /\ IF ~VecQueue_empty(m_eventQueue)
       THEN IF FrontInside(m_eventQueue)
            THEN /\ Goto([Top EXCEPT !.pc = "pe", !.ev = VecQueue_front(m_eventQueue)])
                 /\ UNCHANGED <<ub, lastRet>>
            ELSE /\ ub' = "front: index past the end of m_store"
                 /\ UNCHANGED <<callStack, lastRet>>
       ELSE /\ callStack' = SubSeq(callStack, 1, Len(callStack) - 1)
            /\ lastRet' = IF Len(callStack) = 1
                          THEN [lastRet EXCEPT !.op = Top.outer,
                                               !.wasEmpty = Top.outer = "postEvent"]
                          ELSE lastRet
            /\ ub' = ub
    /\ UNCHANGED <<limits, ideal, fsmStatic, regCalls, life, everStarted, entered, m_setup, m_stackFrames, m_currentInfo, m_nextState, m_eventQueue,
                   nPosted, origin, nReq, deliv, lastTrans, disp, trans>>

\* processQueue: "m_eventQueue.pop();" after processEvent(ev) has returned.
processQueue_pop ==
    /\ At("popq")
    /\ m_eventQueue' = VecQueue_pop(m_eventQueue)
    /\ Goto(Frame("processQueue", "pq", Top.outer))
    /\ disp' = NoDisp
    /\ UNCHANGED <<limits, ideal, fsmStatic, regCalls, life, everStarted, entered, m_setup, m_stackFrames, m_currentInfo, m_nextState, ub,
                   nPosted, origin, nReq, deliv, lastTrans, trans, lastRet>>

\* ---------------------------------------------------------------------------
\* FsmBaseEvent::processEvent
\* ---------------------------------------------------------------------------
\* "auto activeInfo = m_base.activeStateInfo(); if (!activeInfo) return;
\*  bool eventHandled = false; int level = activeInfo->m_level;"
processEvent ==
    /\ At("pe")
    /\ IF m_currentInfo = nullptr
       THEN Goto([Top EXCEPT !.pc = "popq"])
       ELSE Goto([Top EXCEPT !.pc = "bubble", !.eventHandled = FALSE,
                             !.level = Level(m_currentInfo)])
    /\ disp' = [NoDisp EXCEPT !.ev = Top.ev, !.frames = m_stackFrames, !.cur = m_currentInfo]
    /\ UNCHANGED <<limits, ideal, fsmStatic, regCalls, life, everStarted, entered, m_setup, m_stackFrames, m_currentInfo, m_nextState, m_eventQueue, ub,
                   nPosted, origin, nReq, deliv, lastTrans, trans, lastRet>>

\* "while (!eventHandled && level >= 0)"
bubbleCond_skipRoot(f) == ~f.eventHandled /\ f.level > 0
bubbleCond(f) == ~f.eventHandled /\ f.level >= 0

\* The loop head: "auto activeState = m_base.getModelBase(level);
\* eventHandled = emitEvent(activeState, ev);" calls the handler of the
\* object in the slot; after the loop, m_base.possiblyDoTransition(this).
processEvent_bubble_noTransition ==
    /\ At("bubble")
    /\ IF bubbleCond(Top)
       THEN LET active == getModelBase(m_stackFrames, Top.level)
            IN  IF active = nullptr
                THEN /\ ub' = "emitEvent: null state object"
                     /\ UNCHANGED <<callStack, deliv, lastTrans>>
                ELSE /\ Goto([Top EXCEPT !.pc = "handler", !.cb = active])
                     /\ deliv' = IF disp.seen = <<>> THEN Append(deliv, Top.ev) ELSE deliv
                     /\ UNCHANGED <<ub, lastTrans>>
       ELSE /\ Goto([Top EXCEPT !.pc = "popq", !.level = 0, !.eventHandled = FALSE])
            /\ UNCHANGED <<ub, deliv, lastTrans>>
    /\ UNCHANGED <<limits, ideal, fsmStatic, regCalls, life, everStarted, entered, m_setup, m_stackFrames, m_currentInfo, m_nextState, m_eventQueue,
                   nPosted, origin, nReq, disp, trans, lastRet>>

processEvent_bubble ==
    /\ At("bubble")
    /\ IF bubbleCond(Top)
       THEN LET active == getModelBase(m_stackFrames, Top.level)
            IN  IF active = nullptr
                THEN /\ ub' = "emitEvent: null state object"
                     /\ UNCHANGED <<callStack, deliv, lastTrans>>
                ELSE /\ Goto([Top EXCEPT !.pc = "handler", !.cb = active])
                     /\ deliv' = IF disp.seen = <<>> THEN Append(deliv, Top.ev) ELSE deliv
                     /\ UNCHANGED <<ub, lastTrans>>
       ELSE /\ Goto([Top EXCEPT !.pc = "pdt", !.level = 0, !.eventHandled = FALSE])
            /\ UNCHANGED <<ub, deliv, lastTrans>>
    /\ UNCHANGED <<limits, ideal, fsmStatic, regCalls, life, everStarted, entered, m_setup, m_stackFrames, m_currentInfo, m_nextState, m_eventQueue,
                   nPosted, origin, nReq, disp, trans, lastRet>>

\* The handler (St::event) returns handled; "level--".
handler_return(handled) ==
    /\ At("handler")
    /\ Goto([Top EXCEPT !.pc = "bubble", !.eventHandled = handled, !.level = Top.level - 1,
                        !.cb = nullptr])
    /\ disp' = [disp EXCEPT !.seen = Append(@, [s |-> Top.cb, l |-> Top.level, r |-> handled])]
    /\ UNCHANGED <<limits, ideal, fsmStatic, regCalls, life, everStarted, entered, m_setup, m_stackFrames, m_currentInfo, m_nextState, m_eventQueue, ub,
                   nPosted, origin, nReq, deliv, lastTrans, trans, lastRet>>

\* ---------------------------------------------------------------------------
\* FsmBaseMember::possiblyDoTransition
\* ---------------------------------------------------------------------------
\* "while (m_nextState != nullStateId) { auto i = m_setup.findState(m_nextState);
\*  m_nextState = nullStateId; if (i) doTransition(i, fbb); }"
AfterWalk == [disp EXCEPT !.frames = <<>>, !.cur = nullptr, !.seen = <<>>,
                          !.actLast = nullStateId]

\* possiblyDoTransition with "if" for "while": one transition per event.
possiblyDoTransition_once ==
    /\ At("pdt")
    /\ IF m_nextState # nullStateId /\ disp.first = nullptr
       THEN LET i == findState(m_setup, m_nextState)
            IN  /\ m_nextState' = nullStateId
                /\ IF i # nullptr
                   THEN /\ Goto([Top EXCEPT !.pc = "dt", !.nextInfo = i])
                        /\ trans' = [op |-> "transition",
                                     src |-> Chain(m_stackFrames, m_currentInfo), tgt |-> i,
                                     log |-> <<>>, done |-> FALSE]
                        /\ disp' = [AfterWalk EXCEPT
                                     !.first = IF @ = nullptr THEN i ELSE @]
                   ELSE /\ Goto([Top EXCEPT !.pc = "popq"])
                        /\ trans' = NoTrans
                        /\ disp' = AfterWalk
       ELSE /\ Goto([Top EXCEPT !.pc = "popq"])
            /\ trans' = NoTrans
            /\ disp' = [disp EXCEPT !.frames = <<>>, !.cur = nullptr, !.seen = <<>>]
            /\ UNCHANGED m_nextState
    /\ UNCHANGED <<limits, ideal, fsmStatic, regCalls, life, everStarted, entered, m_setup, m_stackFrames, m_currentInfo, m_eventQueue, ub,
                   nPosted, origin, nReq, deliv, lastTrans, lastRet>>

\* possiblyDoTransition that restarts the leaf when nothing is requested.
possiblyDoTransition_restartLeaf ==
    /\ At("pdt")
    /\ LET next == IF m_nextState # nullStateId \/ disp.first # nullptr
                   THEN m_nextState ELSE m_currentInfo
       IN  IF next # nullStateId
           THEN LET i == findState(m_setup, next)
                IN  /\ m_nextState' = nullStateId
                    /\ IF i # nullptr
                       THEN /\ Goto([Top EXCEPT !.pc = "dt", !.nextInfo = i])
                            /\ trans' = [op |-> "transition",
                                         src |-> Chain(m_stackFrames, m_currentInfo), tgt |-> i,
                                         log |-> <<>>, done |-> FALSE]
                            /\ disp' = [AfterWalk EXCEPT
                                         !.first = IF @ = nullptr THEN i ELSE @]
                       ELSE /\ UNCHANGED callStack
                            /\ trans' = NoTrans
                            /\ disp' = AfterWalk
           ELSE /\ Goto([Top EXCEPT !.pc = "popq"])
                /\ trans' = NoTrans
                /\ disp' = AfterWalk
                /\ UNCHANGED m_nextState
    /\ UNCHANGED <<limits, ideal, fsmStatic, regCalls, life, everStarted, entered, m_setup, m_stackFrames, m_currentInfo, m_eventQueue, ub,
                   nPosted, origin, nReq, deliv, lastTrans, lastRet>>

\* possiblyDoTransition clearing m_nextState only inside "if (i)".
possiblyDoTransition_keepUnknown ==
    /\ At("pdt")
    /\ IF m_nextState # nullStateId
       THEN LET i == findState(m_setup, m_nextState)
            IN  IF i # nullptr
                THEN /\ m_nextState' = nullStateId
                     /\ Goto([Top EXCEPT !.pc = "dt", !.nextInfo = i])
                     /\ trans' = [op |-> "transition",
                                  src |-> Chain(m_stackFrames, m_currentInfo), tgt |-> i,
                                  log |-> <<>>, done |-> FALSE]
                     /\ disp' = [AfterWalk EXCEPT
                                  !.first = IF @ = nullptr THEN i ELSE @]
                ELSE /\ UNCHANGED <<callStack, m_nextState>>
                     /\ trans' = NoTrans
                     /\ disp' = AfterWalk
       ELSE /\ Goto([Top EXCEPT !.pc = "popq"])
            /\ trans' = NoTrans
            /\ disp' = AfterWalk
            /\ UNCHANGED m_nextState
    /\ UNCHANGED <<limits, ideal, fsmStatic, regCalls, life, everStarted, entered, m_setup, m_stackFrames, m_currentInfo, m_eventQueue, ub,
                   nPosted, origin, nReq, deliv, lastTrans, lastRet>>

possiblyDoTransition ==
    /\ At("pdt")
    /\ IF m_nextState # nullStateId
       THEN LET i == findState(m_setup, m_nextState)
            IN  /\ m_nextState' = nullStateId
                /\ IF i # nullptr
                   THEN /\ Goto([Top EXCEPT !.pc = "dt", !.nextInfo = i])
                        /\ trans' = [op |-> "transition",
                                     src |-> Chain(m_stackFrames, m_currentInfo), tgt |-> i,
                                     log |-> <<>>, done |-> FALSE]
                        /\ disp' = [AfterWalk EXCEPT
                                     !.first = IF @ = nullptr THEN i ELSE @]
                   ELSE /\ UNCHANGED callStack
                        /\ trans' = NoTrans
                        /\ disp' = AfterWalk
       ELSE /\ Goto([Top EXCEPT !.pc = "popq"])
            /\ trans' = NoTrans
            /\ disp' = AfterWalk
            /\ UNCHANGED m_nextState
    /\ UNCHANGED <<limits, ideal, fsmStatic, regCalls, life, everStarted, entered, m_setup, m_stackFrames, m_currentInfo, m_eventQueue, ub,
                   nPosted, origin, nReq, deliv, lastTrans, lastRet>>

\* ---------------------------------------------------------------------------
\* FsmBaseMember::doTransition(nextInfo, fsm)
\* ---------------------------------------------------------------------------
fixedInTransition == <<limits, ideal, fsmStatic, regCalls, life, everStarted, entered, m_setup, m_nextState, m_eventQueue, ub, nPosted, origin, nReq, deliv, lastRet>>

\* "auto targetLevel = nextInfo->m_level;
\*  if (m_currentInfo == nextInfo) { doExit(m_currentInfo); ..."
doTransition_begin_noSelfCase ==
    /\ At("dt")
    /\ Goto([Top EXCEPT !.pc = "dtA", !.targetLevel = Level(Top.nextInfo)])
    /\ UNCHANGED <<m_stackFrames, trans>>
    /\ UNCHANGED <<m_currentInfo, disp, lastTrans>>
    /\ UNCHANGED fixedInTransition

doTransition_begin ==
    /\ At("dt")
    /\ LET f == [Top EXCEPT !.targetLevel = Level(Top.nextInfo)]
       IN  IF m_currentInfo = Top.nextInfo
           THEN /\ m_stackFrames' = ExitFrames(m_currentInfo)
                /\ Goto(CallExit(f, m_currentInfo, "dtS"))
                /\ trans' = LogExit(m_currentInfo)
           ELSE /\ Goto([f EXCEPT !.pc = "dtA"])
                /\ UNCHANGED <<m_stackFrames, trans>>
    /\ UNCHANGED <<m_currentInfo, disp, lastTrans>>
    /\ UNCHANGED fixedInTransition

\* "... doEntry(m_currentInfo, fsm); return; }"
doTransition_selfEntry ==
    /\ At("dtS")
    /\ Goto(CallEntry(Top, m_currentInfo, "dtRet"))
    /\ trans' = LogEntry(m_currentInfo)
    /\ UNCHANGED <<m_stackFrames, m_currentInfo, disp, lastTrans>>
    /\ UNCHANGED fixedInTransition

doTransition_srcDown_noExit ==
    /\ At("dtA")
    /\ Goto([Top EXCEPT !.pc = IF Level(m_currentInfo) > Level(Top.nextInfo) THEN "dtA1" ELSE "dtB"])
    /\ UNCHANGED <<m_stackFrames, trans, m_currentInfo, disp, lastTrans>>
    /\ UNCHANGED fixedInTransition

\* "while (m_currentInfo->m_level > nextInfo->m_level) { doExit(m_currentInfo);"
doTransition_srcDown ==
    /\ At("dtA")
    /\ IF Level(m_currentInfo) > Level(Top.nextInfo)
       THEN /\ m_stackFrames' = ExitFrames(m_currentInfo)
            /\ Goto(CallExit(Top, m_currentInfo, "dtA1"))
            /\ trans' = LogExit(m_currentInfo)
       ELSE /\ Goto([Top EXCEPT !.pc = "dtB"])
            /\ UNCHANGED <<m_stackFrames, trans>>
    /\ UNCHANGED <<m_currentInfo, disp, lastTrans>>
    /\ UNCHANGED fixedInTransition

doTransition_srcDown1_stay ==
    /\ At("dtA1")
    /\ Goto([Top EXCEPT !.pc = "dtA"])
    /\ UNCHANGED <<m_currentInfo, m_stackFrames, trans, disp, lastTrans>>
    /\ UNCHANGED fixedInTransition

\* "m_currentInfo = stateInfo(m_currentInfo->m_level - 1); }"
doTransition_srcDown1 ==
    /\ At("dtA1")
    /\ m_currentInfo' = stateInfo(m_stackFrames, Level(m_currentInfo) - 1)
    /\ Goto([Top EXCEPT !.pc = "dtA"])
    /\ UNCHANGED <<m_stackFrames, trans, disp, lastTrans>>
    /\ UNCHANGED fixedInTransition

\* "while (nextInfo->m_level > m_currentInfo->m_level) {
\*  stateInfo(nextInfo->m_level) = nextInfo; nextInfo = findState(nextInfo->m_parentId); }
\*  int level = m_currentInfo->m_level;"
doTransition_dstDown ==
    /\ At("dtB")
    /\ LET next == Top.nextInfo
       IN  IF Level(next) > Level(m_currentInfo)
           THEN /\ m_stackFrames' = [m_stackFrames EXCEPT ![Level(next) + 1].m_stateInfo = next]
                /\ Goto([Top EXCEPT !.nextInfo = Parent(next)])
           ELSE /\ Goto([Top EXCEPT !.pc = "dtC", !.tlevel = Level(m_currentInfo)])
                /\ UNCHANGED m_stackFrames
    /\ UNCHANGED <<m_currentInfo, trans, disp, lastTrans>>
    /\ UNCHANGED fixedInTransition

\* The same-level loop without its "nextInfo != m_currentInfo" test.
doTransition_bothDown_untilRoot ==
    /\ At("dtC")
    /\ IF Top.tlevel > 0
       THEN /\ m_stackFrames' = ExitFrames(m_currentInfo)
            /\ Goto(CallExit(Top, m_currentInfo, "dtC1"))
            /\ trans' = LogExit(m_currentInfo)
       ELSE /\ Goto([Top EXCEPT !.pc = "dtD"])
            /\ UNCHANGED <<m_stackFrames, trans>>
    /\ UNCHANGED <<m_currentInfo, disp, lastTrans>>
    /\ UNCHANGED fixedInTransition

\* "while (nextInfo != m_currentInfo && level > 0) { doExit(m_currentInfo);"
doTransition_bothDown ==
    /\ At("dtC")
    /\ IF Top.nextInfo # m_currentInfo /\ Top.tlevel > 0
       THEN /\ m_stackFrames' = ExitFrames(m_currentInfo)
            /\ Goto(CallExit(Top, m_currentInfo, "dtC1"))
            /\ trans' = LogExit(m_currentInfo)
       ELSE /\ Goto([Top EXCEPT !.pc = "dtD"])
            /\ UNCHANGED <<m_stackFrames, trans>>
    /\ UNCHANGED <<m_currentInfo, disp, lastTrans>>
    /\ UNCHANGED fixedInTransition

doTransition_bothDown1_enterNow ==
    /\ At("dtC1")
    /\ LET frames == [m_stackFrames EXCEPT ![Top.tlevel + 1].m_stateInfo = Top.nextInfo]
       IN  /\ m_stackFrames' = frames
           /\ m_currentInfo' = stateInfo(frames, Top.tlevel - 1)
           /\ Goto(CallEntry([Top EXCEPT !.tlevel = Top.tlevel - 1,
                                        !.nextInfo = Parent(Top.nextInfo)], Top.nextInfo, "dtC"))
           /\ trans' = LogEntry(Top.nextInfo)
    /\ UNCHANGED <<disp, lastTrans>>
    /\ UNCHANGED fixedInTransition

doTransition_bothDown1_noRecord ==
    /\ At("dtC1")
    /\ m_currentInfo' = stateInfo(m_stackFrames, Top.tlevel - 1)
    /\ Goto([Top EXCEPT !.pc = "dtC", !.tlevel = Top.tlevel - 1,
                        !.nextInfo = Parent(Top.nextInfo)])
    /\ UNCHANGED <<m_stackFrames, trans, disp, lastTrans>>
    /\ UNCHANGED fixedInTransition

\* "stateInfo(level) = nextInfo; level--; m_currentInfo = stateInfo(level);
\*  nextInfo = m_setup.findState(nextInfo->m_parentId); }"
doTransition_bothDown1 ==
    /\ At("dtC1")
    /\ LET frames == [m_stackFrames EXCEPT ![Top.tlevel + 1].m_stateInfo = Top.nextInfo]
       IN  /\ m_stackFrames' = frames
           /\ m_currentInfo' = stateInfo(frames, Top.tlevel - 1)
           /\ Goto([Top EXCEPT !.pc = "dtC", !.tlevel = Top.tlevel - 1,
                               !.nextInfo = Parent(Top.nextInfo)])
    /\ UNCHANGED <<trans, disp, lastTrans>>
    /\ UNCHANGED fixedInTransition

\* "if (nextInfo != m_currentInfo) { doExit(m_currentInfo);"
doTransition_root ==
    /\ At("dtD")
    /\ IF Top.nextInfo # m_currentInfo
       THEN /\ m_stackFrames' = ExitFrames(m_currentInfo)
            /\ Goto(CallExit(Top, m_currentInfo, "dtD1"))
            /\ trans' = LogExit(m_currentInfo)
       ELSE /\ Goto([Top EXCEPT !.pc = "dtE"])
            /\ UNCHANGED <<m_stackFrames, trans>>
    /\ UNCHANGED <<m_currentInfo, disp, lastTrans>>
    /\ UNCHANGED fixedInTransition

\* The level-0 case without its doEntry call.
doTransition_root1_noEntry ==
    /\ At("dtD1")
    /\ m_stackFrames' = [m_stackFrames EXCEPT ![1].m_stateInfo = Top.nextInfo]
    /\ m_currentInfo' = Top.nextInfo
    /\ Goto([Top EXCEPT !.pc = "dtE"])
    /\ UNCHANGED <<trans, disp, lastTrans>>
    /\ UNCHANGED fixedInTransition

doTransition_root1_noRecord ==
    /\ At("dtD1")
    /\ m_currentInfo' = Top.nextInfo
    /\ Goto(CallEntry(Top, Top.nextInfo, "dtE"))
    /\ trans' = LogEntry(Top.nextInfo)
    /\ UNCHANGED <<m_stackFrames, disp, lastTrans>>
    /\ UNCHANGED fixedInTransition

\* "stateInfo(0) = nextInfo; m_currentInfo = nextInfo; doEntry(m_currentInfo, fsm); }"
doTransition_root1 ==
    /\ At("dtD1")
    /\ m_stackFrames' = [m_stackFrames EXCEPT ![1].m_stateInfo = Top.nextInfo]
    /\ m_currentInfo' = Top.nextInfo
    /\ Goto(CallEntry(Top, Top.nextInfo, "dtE"))
    /\ trans' = LogEntry(Top.nextInfo)
    /\ UNCHANGED <<disp, lastTrans>>
    /\ UNCHANGED fixedInTransition

\* "while (m_currentInfo->m_level < targetLevel) {
\*  m_currentInfo = stateInfo(m_currentInfo->m_level + 1); doEntry(m_currentInfo, fsm); }"
doTransition_up_direct ==
    /\ At("dtE")
    /\ IF Level(m_currentInfo) < Top.targetLevel
       THEN LET next == stateInfo(m_stackFrames, Top.targetLevel)
            IN  /\ m_currentInfo' = next
                /\ Goto(CallEntry(Top, next, "dtE"))
                /\ trans' = LogEntry(next)
       ELSE /\ Goto([Top EXCEPT !.pc = "dtRet"])
            /\ UNCHANGED <<m_currentInfo, trans>>
    /\ UNCHANGED <<m_stackFrames, disp, lastTrans>>
    /\ UNCHANGED fixedInTransition

doTransition_up ==
    /\ At("dtE")
    /\ IF Level(m_currentInfo) < Top.targetLevel
       THEN LET next == stateInfo(m_stackFrames, Level(m_currentInfo) + 1)
            IN  /\ m_currentInfo' = next
                /\ Goto(CallEntry(Top, next, "dtE"))
                /\ trans' = LogEntry(next)
       ELSE /\ Goto([Top EXCEPT !.pc = "dtRet"])
            /\ UNCHANGED <<m_currentInfo, trans>>
    /\ UNCHANGED <<m_stackFrames, disp, lastTrans>>
    /\ UNCHANGED fixedInTransition

\* doTransition returns into the loop of possiblyDoTransition.
doTransition_return ==
    /\ At("dtRet")
    /\ Goto([Top EXCEPT !.pc = "pdt", !.nextInfo = nullptr, !.targetLevel = 0, !.tlevel = 0])
    /\ trans' = [trans EXCEPT !.done = TRUE]
    /\ disp' = [disp EXCEPT !.firstLeaf = IF @ = nullptr THEN m_currentInfo ELSE @]
    /\ lastTrans' = [tgt |-> trans.tgt, ev |-> Top.ev]
    /\ UNCHANGED <<m_stackFrames, m_currentInfo>>
    /\ UNCHANGED fixedInTransition

\* ---------------------------------------------------------------------------
\* Destruction: ~FsmBaseEvent (m_eventQueue), ~FsmBaseBase, ~FsmBaseMember
\* ---------------------------------------------------------------------------
\* The application destroys the machine. The derived parts and m_eventQueue are
\* destroyed first; then m_base is destroyed: "~FsmBaseMember() { cleanup(); }".
Destroy ==
    /\ InApplication
    /\ life' = "dying"
    /\ callStack' = <<Frame("cleanup", "cl", "destroy")>>
    /\ trans' = [op |-> "cleanup", src |-> Chain(m_stackFrames, m_currentInfo),
                 tgt |-> nullptr, done |-> FALSE, log |-> <<>>]
    /\ lastRet' = NoRet
    /\ UNCHANGED <<limits, ideal, fsmStatic, regCalls, everStarted, entered, m_setup, m_stackFrames, m_currentInfo, m_nextState,
                   m_eventQueue, ub, nPosted, origin, nReq, deliv, lastTrans, disp>>

\* An exit action running in cleanup posts an event: m_eventQueue was destroyed
\* before cleanup started.
postEvent_destroyed ==
    /\ InCallback
    /\ life = "dying"
    /\ nPosted < limits.events
    /\ ub' = "postEvent: m_eventQueue destroyed"
    /\ UNCHANGED <<limits, ideal, fsmStatic, regCalls, life, everStarted, entered, m_setup, m_stackFrames, m_currentInfo, m_nextState,
                   m_eventQueue, callStack, nPosted, origin, nReq, deliv, lastTrans, disp, trans, lastRet>>

\* cleanup without "if (!m_currentInfo) return;": the loop condition reads
\* m_currentInfo->m_level.
cleanup_noNullCheck ==
    /\ At("cl")
    /\ IF m_currentInfo = nullptr
       THEN /\ ub' = "cleanup: m_currentInfo->m_level on nullptr"
            /\ UNCHANGED callStack
       ELSE /\ Goto([Top EXCEPT !.pc = "clLoop"])
            /\ ub' = ub
    /\ UNCHANGED <<limits, ideal, fsmStatic, regCalls, life, everStarted, entered, m_setup, m_stackFrames, m_currentInfo, m_nextState,
                   m_eventQueue, nPosted, origin, nReq, deliv, lastTrans, disp, trans, lastRet>>

\* "if (!m_currentInfo) return;"
cleanup ==
    /\ At("cl")
    /\ Goto([Top EXCEPT !.pc = IF m_currentInfo = nullptr THEN "clEnd" ELSE "clLoop"])
    /\ UNCHANGED <<limits, ideal, fsmStatic, regCalls, life, everStarted, entered, m_setup, m_stackFrames, m_currentInfo, m_nextState,
                   m_eventQueue, ub, nPosted, origin, nReq, deliv, lastTrans, disp, trans, lastRet>>

cleanup_loop_skipRoot ==
    /\ At("clLoop")
    /\ IF Level(m_currentInfo) > 0
       THEN /\ m_stackFrames' = ExitFrames(m_currentInfo)
            /\ trans' = LogExit(m_currentInfo)
            /\ Goto(CallExit(Top, m_currentInfo, "clLoop1"))
       ELSE /\ Goto([Top EXCEPT !.pc = "clNull"])
            /\ UNCHANGED <<m_stackFrames, trans>>
    /\ UNCHANGED <<limits, ideal, fsmStatic, regCalls, life, everStarted, entered, m_setup, m_currentInfo, m_nextState,
                   m_eventQueue, ub, nPosted, origin, nReq, deliv, lastTrans, disp, lastRet>>

\* "while (m_currentInfo->m_level > 0) { doExit(m_currentInfo); ... }
\*  doExit(m_currentInfo);"
cleanup_loop ==
    /\ At("clLoop")
    /\ m_stackFrames' = ExitFrames(m_currentInfo)
    /\ trans' = LogExit(m_currentInfo)
    /\ Goto(CallExit(Top, m_currentInfo, IF Level(m_currentInfo) > 0 THEN "clLoop1" ELSE "clNull"))
    /\ UNCHANGED <<limits, ideal, fsmStatic, regCalls, life, everStarted, entered, m_setup, m_currentInfo, m_nextState,
                   m_eventQueue, ub, nPosted, origin, nReq, deliv, lastTrans, disp, lastRet>>

\* "m_currentInfo = stateInfo(m_currentInfo->m_level - 1);"
cleanup_loop1 ==
    /\ At("clLoop1")
    /\ m_currentInfo' = stateInfo(m_stackFrames, Level(m_currentInfo) - 1)
    /\ Goto([Top EXCEPT !.pc = "clLoop"])
    /\ UNCHANGED <<limits, ideal, fsmStatic, regCalls, life, everStarted, entered, m_setup, m_stackFrames, m_nextState,
                   m_eventQueue, ub, nPosted, origin, nReq, deliv, lastTrans, disp, trans, lastRet>>

\* "m_currentInfo = nullptr;" and cleanup returns.
cleanup_return ==
    /\ At("clNull")
    /\ m_currentInfo' = nullptr
    /\ Goto([Top EXCEPT !.pc = "clEnd"])
    /\ UNCHANGED <<limits, ideal, fsmStatic, regCalls, life, everStarted, entered, m_setup, m_stackFrames, m_nextState,
                   m_eventQueue, ub, nPosted, origin, nReq, deliv, lastTrans, disp, trans, lastRet>>

\* The members of FsmBaseMember are destroyed; m_stackFrames destroys every
\* LevelData (see setStartState for a level that still holds an object).
Destroyed ==
    /\ At("clEnd")
    /\ IF Occupied(m_stackFrames) # {}
       THEN /\ ub' = "~LevelData: state object destroyed after its storage"
            /\ UNCHANGED <<m_stackFrames, callStack, life, trans>>
       ELSE /\ m_stackFrames' = <<>>
            /\ callStack' = <<>>
            /\ life' = "dead"
            /\ trans' = [trans EXCEPT !.done = TRUE]
            /\ ub' = ub
    /\ UNCHANGED <<limits, ideal, fsmStatic, regCalls, everStarted, entered, m_setup, m_currentInfo, m_nextState,
                   m_eventQueue, nPosted, origin, nReq, deliv, lastTrans, disp, lastRet>>

\* ---------------------------------------------------------------------------
\* Specification
\* ---------------------------------------------------------------------------
Next ==
    \/ \E id \in StateIds : setStartState(id)
    \/ setupTransition
    \/ \E id \in StateIds : transition(id)
    \/ postEvent
    \/ addEvent
    \/ processQueue
    \/ processQueue_loop
    \/ processQueue_pop
    \/ processEvent
    \/ processEvent_bubble
    \/ \E handled \in BOOLEAN : handler_return(handled)
    \/ possiblyDoTransition
    \/ doTransition_begin
    \/ doTransition_selfEntry
    \/ doTransition_srcDown
    \/ doTransition_srcDown1
    \/ doTransition_dstDown
    \/ doTransition_bothDown
    \/ doTransition_bothDown1
    \/ doTransition_root
    \/ doTransition_root1
    \/ doTransition_up
    \/ doTransition_return
    \/ EntryReturn
    \/ ExitReturn
    \/ Destroy
    \/ postEvent_destroyed
    \/ cleanup
    \/ cleanup_loop
    \/ cleanup_loop1
    \/ cleanup_return
    \/ Destroyed

Spec == Init /\ [][Next]_vars

SpecT == InitT /\ [][Next]_vars

SpecR == InitR /\ [][Next]_vars

\* SpecA: the machines of SpecR with enough transition() calls for a handler
\* and two entry or exit actions of the transition it causes.
InitA ==
    /\ limits = [events |-> MaxEventsA, reqs |-> MaxReqA]
    /\ m_setup \in { FsmSetup(calls) : calls \in TestSetupCalls \cup SiblingSetupCalls }
    /\ InitMachine

SpecA == InitA /\ [][Next]_vars

\* SpecL: the machines of Spec, driven by up to MaxEventsL events and MaxReqL
\* transition requests.  The library runs on the caller's thread: while a call
\* into the machine is in progress its next statement is executed, and user
\* code that was called returns.  Nothing obliges the application to make a
\* call.
InitL ==
    /\ limits = [events |-> MaxEventsL, reqs |-> MaxReqL]
    /\ m_setup \in { FsmSetup(calls) : calls \in TestSetupCalls \cup SiblingSetupCalls }
    /\ InitMachine

Progress == callStack # <<>> /\ Next

SpecL == InitL /\ [][Next]_vars /\ WF_vars(Progress)

\* SpecN: the machines of Spec whose state classes also use the two other
\* public members of FsmBaseEvent through fsm(): addEvent and processQueue.
InitN ==
    /\ limits = [events |-> MaxEventsN, reqs |-> MaxReqN]
    /\ m_setup \in { FsmSetup(calls) : calls \in TestSetupCalls \cup SiblingSetupCalls }
    /\ InitMachine

\* fsm().addEvent(ev), called by user code of a state class.
addEvent_user ==
    /\ InCallback
    /\ life = "alive"
    /\ nPosted < limits.events
    /\ m_eventQueue' = VecQueue_push(m_eventQueue, nPosted + 1)
    /\ nPosted' = nPosted + 1
    /\ origin' = Append(origin, InDispatch)
    /\ UNCHANGED <<limits, ideal, fsmStatic, regCalls, life, everStarted, entered, m_setup, m_stackFrames, m_currentInfo, m_nextState, callStack, ub,
                   nReq, deliv, lastTrans, disp, trans, lastRet>>

\* fsm().processQueue(), called by user code of a state class.
processQueue_user ==
    /\ InCallback
    /\ life = "alive"
    /\ Len(callStack) < MaxNest
    /\ callStack' = Append(callStack, Frame("processQueue", "pq", "nested"))
    /\ UNCHANGED <<limits, ideal, fsmStatic, regCalls, life, everStarted, entered, m_setup, m_stackFrames, m_currentInfo, m_nextState, m_eventQueue, ub,
                   nPosted, origin, nReq, deliv, lastTrans, disp, trans, lastRet>>

NextN ==
    \/ Next
    \/ addEvent_user
    \/ processQueue_user

SpecN == InitN /\ [][NextN]_vars

\* ---------------------------------------------------------------------------
\* SpecQ: a VecQueue<int> on its own, driven by up to MaxPush push calls with
\* the elements 1, 2, ..., pop calls and up to MaxPopBack pop_back calls, the
\* last two on a queue that is not empty().
\* ---------------------------------------------------------------------------
InitQ ==
    /\ limits = [events |-> MaxPush, reqs |-> 0]
    /\ m_setup = FsmStaticData(0)
    /\ m_stackFrames = <<>>
    /\ m_currentInfo = nullptr
    /\ m_nextState = nullStateId
    /\ m_eventQueue = VecQueue
    /\ callStack = <<>>
    /\ ub = "none"
    /\ nPosted = 0
    /\ nReq = 0
    /\ deliv = <<>>
    /\ disp = NoDisp
    /\ trans = NoTrans
    /\ lastRet = NoRet
    /\ life = "setup"
    /\ everStarted = FALSE
    /\ entered = <<>>
    /\ origin = <<>>
    /\ lastTrans = NoLast
    /\ regCalls = <<>>
    /\ ideal = NoCalls
    /\ fsmStatic = NoFsmStatic

queueOnly == <<limits, fsmStatic, regCalls, life, everStarted, entered, m_setup, m_stackFrames, m_currentInfo,
               m_nextState, callStack, ub, nReq, deliv, lastTrans, disp, trans, lastRet, origin>>

push ==
    /\ nPosted < limits.events
    /\ m_eventQueue' = VecQueue_push(m_eventQueue, nPosted + 1)
    /\ nPosted' = nPosted + 1
    /\ ideal' = [ideal EXCEPT !.seq = Append(@, nPosted + 1),
                              !.renorms = IF Renormalizes(m_eventQueue) THEN @ + 1 ELSE @]
    /\ UNCHANGED queueOnly

pop ==
    /\ ~VecQueue_empty(m_eventQueue)
    /\ m_eventQueue' = VecQueue_pop(m_eventQueue)
    /\ ideal' = [ideal EXCEPT !.seq = IF @ = <<>> THEN @ ELSE Tail(@), !.pops = @ + 1]
    /\ UNCHANGED nPosted
    /\ UNCHANGED queueOnly

pop_back ==
    /\ ~VecQueue_empty(m_eventQueue)
    /\ ideal.popBacks < MaxPopBack
    /\ m_eventQueue' = VecQueue_pop_back(m_eventQueue)
    /\ ideal' = [ideal EXCEPT !.seq = IF @ = <<>> THEN @ ELSE SubSeq(@, 1, Len(@) - 1),
                              !.popBacks = @ + 1]
    /\ UNCHANGED nPosted
    /\ UNCHANGED queueOnly

NextQ ==
    \/ push
    \/ pop
    \/ pop_back

SpecQ == InitQ /\ [][NextQ]_vars

\* ---------------------------------------------------------------------------
\* SpecS: FsmStatic<Root> for every FsmNode tree of up to MaxNodes states; its
\* static members are constant-initialised, each by its own initialiser.
\* ---------------------------------------------------------------------------
InitS ==
    /\ limits = [events |-> 0, reqs |-> 0]
    /\ m_setup = FsmStaticData(0)
    /\ m_stackFrames = <<>>
    /\ m_currentInfo = nullptr
    /\ m_nextState = nullStateId
    /\ m_eventQueue = VecQueue
    /\ callStack = <<>>
    /\ ub = "none"
    /\ nPosted = 0
    /\ nReq = 0
    /\ deliv = <<>>
    /\ disp = NoDisp
    /\ trans = NoTrans
    /\ lastRet = NoRet
    /\ life = "setup"
    /\ everStarted = FALSE
    /\ entered = <<>>
    /\ origin = <<>>
    /\ lastTrans = NoLast
    /\ regCalls = <<>>
    /\ ideal = NoCalls
    /\ \E Root \in RootNodes : fsmStatic = [NoFsmStatic EXCEPT !.Root = Root]

staticOnly == <<limits, ideal, regCalls, life, everStarted, entered, m_setup, m_stackFrames,
                m_currentInfo, m_nextState, m_eventQueue, callStack, ub, nPosted, nReq, deliv,
                lastTrans, disp, trans, lastRet, origin>>

index2Id ==
    /\ "index2Id" \notin fsmStatic.done
    /\ fsmStatic' = [fsmStatic EXCEPT !.index2Id = initIndex2Id(fsmStatic.Root),
                                      !.done = @ \cup {"index2Id"}]
    /\ UNCHANGED staticOnly

parentIndex ==
    /\ "parentIndex" \notin fsmStatic.done
    /\ fsmStatic' = [fsmStatic EXCEPT !.parentIndex = initParentIndex(fsmStatic.Root),
                                      !.done = @ \cup {"parentIndex"}]
    /\ UNCHANGED staticOnly

levels ==
    /\ "levels" \notin fsmStatic.done
    /\ fsmStatic' = [fsmStatic EXCEPT !.levels = initLevels(fsmStatic.Root),
                                      !.done = @ \cup {"levels"}]
    /\ UNCHANGED staticOnly

NextS ==
    \/ index2Id
    \/ parentIndex
    \/ levels

SpecS == InitS /\ [][NextS]_vars

\* static members derived from levels
levelIndex == fsmStatic.levels.levelIndex
maxLevel == fsmStatic.levels.maxLevel
maxStackSize == fsmStatic.levels.maxLevel + 1

\* ---------------------------------------------------------------------------
\* FsmSetup: setupStates() registering states, one addState call at a time
\* ---------------------------------------------------------------------------
\* FsmSetup() : m_data(stateIdNo): the table before setupStates() runs.
InitReg ==
    /\ limits = [events |-> 0, reqs |-> 0]
    /\ m_setup = FsmStaticData(StateNoReg)
    /\ m_stackFrames = <<>>
    /\ m_currentInfo = nullptr
    /\ m_nextState = nullStateId
    /\ m_eventQueue = VecQueue
    /\ callStack = <<>>
    /\ ub = "none"
    /\ nPosted = 0
    /\ nReq = 0
    /\ deliv = <<>>
    /\ disp = NoDisp
    /\ trans = NoTrans
    /\ lastRet = NoRet
    /\ life = "setup"
    /\ everStarted = FALSE
    /\ entered = [id \in 0 .. (StateNoReg - 1) |-> 0]
    /\ origin = <<>>
    /\ lastTrans = NoLast
    /\ regCalls = <<>>
    /\ ideal = NoCalls
    /\ fsmStatic = NoFsmStatic

\* FsmSetup::addState<State, ParentState>() -> FsmStaticData::addStateBase, for
\* any two state ids (addState<State>() is addState<State, State>()).
\* "auto parent = findState(parentId); level = parent->m_level + 1;" reads
\* through a null pointer if parentId is not registered.
addState(stateId, parentId) ==
    /\ life = "setup"
    /\ ub = "none"
    /\ Len(regCalls) < MaxCalls
    /\ IF stateId # parentId /\ findState(m_setup, parentId) = nullptr
       THEN /\ ub' = "addStateBase: parent->m_level on nullptr"
            /\ UNCHANGED m_setup
       ELSE /\ m_setup' = addStateBase(m_setup, stateId, parentId, SizeOf(stateId))
            /\ ub' = ub
    /\ regCalls' = Append(regCalls, <<stateId, parentId>>)
    /\ UNCHANGED <<limits, ideal, fsmStatic, life, everStarted, entered, m_stackFrames, m_currentInfo, m_nextState,
                   m_eventQueue, callStack, nPosted, origin, nReq, deliv, lastTrans, disp, trans,
                   lastRet>>

NextReg == \E stateId, parentId \in 0 .. (StateNoReg - 1) : addState(stateId, parentId)

SpecReg == InitReg /\ [][NextReg]_vars

\* ---------------------------------------------------------------------------
\* Properties
\* ---------------------------------------------------------------------------
StrictlyIncreasing(s) == \A i \in 1 .. (Len(s) - 1) : s[i] < s[i + 1]

\* The activations of processQueue that are inside processEvent(ev).
Dispatching == { i \in DOMAIN callStack : callStack[i].op = "processQueue" /\ callStack[i].pc # "pq" }

Delivered == { deliv[i] : i \in DOMAIN deliv }

\* C1: events reach the handlers in the order they were posted: the delivery
\* order is the posting order, the queued events wait in posting order behind
\* the last delivered one, and an event posted by user code during the
\* dispatch of another event is not delivered before that dispatch is over.
C1_FifoDispatch ==
    ub = "none" =>
        /\ StrictlyIncreasing(deliv)
        /\ StrictlyIncreasing(Pending(m_eventQueue))
        /\ \A i \in DOMAIN deliv : \A e \in DOMAIN origin :
               (e < deliv[i] /\ e \notin Delivered) =>
                   \A j \in DOMAIN Pending(m_eventQueue) : Pending(m_eventQueue)[j] # e
        /\ \A i \in Dispatching : \A e \in Delivered : origin[e] # callStack[i].ev

\* e1 and e2 were queued, the handler of e1 posted e3, and the handlers saw
\* e1, e2, e3 in this order.
C1_Witness == ub = "none" /\ deliv = <<1, 2, 3>> /\ origin = <<0, 0, 1>>

\* The activations of processQueue that are in the handler walk of
\* processEvent, or at its end before possiblyDoTransition has run.
Walking ==
    { i \in DOMAIN callStack :
        /\ callStack[i].op = "processQueue"
        /\ \/ callStack[i].pc \in {"bubble", "handler"}
           \/ callStack[i].pc = "pdt" /\ disp.cur # nullptr }

\* C2: from the first handler of an event to the end of the handler walk the
\* active chain is the chain processEvent found: no state is entered or
\* exited, every handler runs on the object the chain held at its level when
\* the dispatch started, and a requested transition is only recorded.
C2_RunToCompletion ==
    \A i \in Walking :
        /\ disp.ev = callStack[i].ev
        /\ m_stackFrames = disp.frames
        /\ m_currentInfo = disp.cur
        /\ callStack[i].pc = "handler" =>
               /\ callStack[i].level \in 0 .. Level(disp.cur)
               /\ callStack[i].cb = getModelBase(disp.frames, callStack[i].level)
        /\ disp.walkLast # nullStateId => m_nextState = disp.walkLast

\* The leaf's handler has requested a transition to another registered state
\* and the handler of an ancestor is running.
C2_Witness ==
    /\ At("handler")
    /\ Top.level < Level(m_currentInfo)
    /\ disp.seen # <<>>
    /\ m_nextState # nullStateId
    /\ findState(m_setup, m_nextState) \notin {nullptr, m_currentInfo}
    /\ m_nextState = disp.walkLast

\* Every level of the active chain records the ancestor of the leaf at that
\* level and holds its live object.
ChainActive ==
    /\ Chain(m_stackFrames, m_currentInfo) = ChainOf(m_currentInfo)
    /\ \A l \in 0 .. Level(m_currentInfo) :
           getModelBase(m_stackFrames, l) = stateInfo(m_stackFrames, l)

\* C3: when the first handler of an event runs, no dispatch or transition of
\* an earlier event is still in progress, nothing requested during the
\* previous event is left pending, and the handler runs on the leaf of the
\* chain the last completed transition has built.
C3_TransitionBeforeNextEvent ==
    (At("handler") /\ disp.seen = <<>>) =>
        /\ Len(callStack) = 1
        /\ (Len(deliv) >= 2 /\ disp.walkLast = nullStateId) => m_nextState = nullStateId
        /\ lastTrans.tgt # nullptr => m_currentInfo = lastTrans.tgt
        /\ ChainActive
        /\ Top.level = Level(m_currentInfo)
        /\ Top.cb = m_currentInfo

\* The handler of the previous event requested a transition and posted this
\* event; the transition ran during the previous event and this event's first
\* handler is the one of the transition's target, a non-root state.
C3_Witness ==
    /\ At("handler")
    /\ disp.seen = <<>>
    /\ Len(deliv) >= 2
    /\ lastTrans.ev = deliv[Len(deliv) - 1]
    /\ origin[Top.ev] = lastTrans.ev
    /\ lastTrans.tgt = Top.cb
    /\ Level(Top.cb) >= 1

\* C4 as stated: whenever an application-level postEvent call has returned,
\* the queue is empty, whatever addEvent calls preceded it.
C4_QueueEmptyAfterPostEvent ==
    lastRet.op = "postEvent" => VecQueue_empty(m_eventQueue)

\* C4, amended: an application-level postEvent call that found the queue
\* empty returns with the queue empty, and on a started machine its event and
\* every event posted during the drain have reached the handlers; a call that
\* found events queued returns with its event appended behind them.
C4_QueueEmptyAfterDrain ==
    lastRet.op = "postEvent" =>
        IF lastRet.wasEmpty
        THEN /\ m_eventQueue = VecQueue
             /\ m_currentInfo # nullptr =>
                    \A e \in lastRet.ev .. nPosted : e \in Delivered
        ELSE /\ VecQueue_size(m_eventQueue) >= 2
             /\ m_eventQueue.m_store[Len(m_eventQueue.m_store)] = lastRet.ev

\* A postEvent call on a started machine with an empty queue has returned
\* after a drain in which two more events were posted by user code.
C4_Witness ==
    /\ lastRet.op = "postEvent"
    /\ lastRet.wasEmpty
    /\ m_currentInfo # nullptr
    /\ nPosted >= lastRet.ev + 2
    /\ \A e \in (lastRet.ev + 1) .. nPosted : origin[e] # 0

\* C5: at most one activation of the drain loop exists at any time, and from
\* the start of an event's processEvent call until that call has returned,
\* transitions included, the event is the front element of the queue: a
\* postEvent call made by user code meanwhile has only appended.
C5_SingleDrainLoop ==
    /\ Cardinality({ i \in DOMAIN callStack : callStack[i].op = "processQueue" }) <= 1
    /\ ub = "none" =>
           \A i \in Dispatching :
               /\ FrontInside(m_eventQueue)
               /\ VecQueue_front(m_eventQueue) = callStack[i].ev

\* An exit action runs during the transition of an event whose user code has
\* already posted another event, which waits in the queue behind it.
C5_Witness ==
    /\ At("exit")
    /\ Top.op = "processQueue"
    /\ VecQueue_size(m_eventQueue) >= 2
    /\ origin[m_eventQueue.m_store[Len(m_eventQueue.m_store)]] = Top.ev

\* C6: the handlers of one event run leaf first and then level by level
\* toward the root, each on the state the chain holds at its level; a handler
\* runs only while no earlier handler has returned true, so each state of the
\* chain sees the event at most once; the walk ends at the first handler that
\* returns true, or after the root's handler (leaf level + 1 handlers).
C6_BubbleLeafToRoot ==
    \A i \in Walking :
        LET f == callStack[i]
            leaf == Level(disp.cur)
            n == Len(disp.seen)
        IN  /\ \A k \in 1 .. n :
                   /\ disp.seen[k].l = leaf - (k - 1)
                   /\ disp.seen[k].s = ChainOf(disp.cur)[disp.seen[k].l + 1]
            /\ \A k \in 1 .. (n - 1) : ~disp.seen[k].r
            /\ f.pc = "handler" =>
                   /\ f.level = leaf - n
                   /\ f.level >= 0
                   /\ f.cb = ChainOf(disp.cur)[f.level + 1]
                   /\ n >= 1 => ~disp.seen[n].r
            /\ f.pc = "pdt" => n >= 1 /\ (disp.seen[n].r \/ n = leaf + 1)

\* A leaf at level 2: no handler returned true and the walk has ended after
\* three handlers.
C6_Witness ==
    /\ At("pdt")
    /\ disp.cur # nullptr
    /\ Level(disp.cur) = 2
    /\ Len(disp.seen) = 3
    /\ \A k \in 1 .. 3 : ~disp.seen[k].r

\* The activations of processQueue that have finished the handler walk of
\* their event: possiblyDoTransition and the transitions it runs, up to the pop.
AfterTheWalk ==
    { i \in DOMAIN callStack :
        /\ callStack[i].op = "processQueue"
        /\ callStack[i].pc \notin {"pq", "pe", "bubble", "handler"} }

InChain(si, chain) == \E l \in DOMAIN chain : chain[l] = si

\* C7: when handlers of one walk have called transition(), the transition
\* applied after the walk is the one to the id of the last call: it is the
\* first doTransition of the event, it ends with that state as leaf, it
\* enters only states of that state's chain, and the machine is in that state
\* when the event is done unless an entry or exit action has requested a
\* further transition. (An id that names no registered state has no target:
\* then no transition is performed, not even toward an earlier request.)
C7_LastRequestWins ==
    \A i \in AfterTheWalk :
        disp.walkLast # nullStateId =>
            LET tgt == findState(m_setup, disp.walkLast)
            IN  /\ disp.first \in {nullptr, tgt}
                /\ disp.firstLeaf \in {nullptr, tgt}
                /\ (disp.first # nullptr /\ disp.firstLeaf = nullptr) =>
                       /\ trans.tgt = tgt
                       /\ \A k \in DOMAIN trans.log :
                              trans.log[k].k = "entry" => InChain(trans.log[k].s, ChainOf(tgt))
                /\ callStack[i].pc = "popq" =>
                       /\ disp.first = tgt
                       /\ disp.firstLeaf = tgt
                       /\ (tgt # nullptr /\ ~disp.actReq) =>
                              m_currentInfo = tgt /\ lastTrans = [tgt |-> tgt, ev |-> disp.ev]

\* Two handlers of one walk requested transitions to two registered states,
\* the earlier one outside the chain of the later one; the event is done and
\* the machine is in the later one.
C7_Witness ==
    /\ At("popq")
    /\ disp.walkPrev # nullStateId
    /\ findState(m_setup, disp.walkPrev) # nullptr
    /\ findState(m_setup, disp.walkLast) # nullptr
    /\ ~InChain(disp.walkPrev, ChainOf(disp.walkLast))
    /\ ~disp.actReq
    /\ m_currentInfo = disp.walkLast
    /\ lastTrans.ev = disp.ev

Exits(log) == { k \in DOMAIN log : log[k].k = "exit" }
Entries(log) == { k \in DOMAIN log : log[k].k = "entry" }

\* C8: within one transition (and within the entries of setStartState) every
\* exit precedes every entry, the exits run in strictly decreasing level
\* order and the entries in strictly increasing level order.
C8_ExitsThenEntries ==
    \A a, b \in DOMAIN trans.log :
        a < b =>
            /\ a \in Entries(trans.log) => b \in Entries(trans.log)
            /\ (a \in Exits(trans.log) /\ b \in Exits(trans.log)) =>
                   trans.log[a].l > trans.log[b].l
            /\ (a \in Entries(trans.log) /\ b \in Entries(trans.log)) =>
                   trans.log[a].l < trans.log[b].l

\* A doTransition has returned after two exits followed by an entry, or an
\* exit followed by two entries.
C8_Witness ==
    /\ ub = "none"
    /\ trans.done
    /\ trans.src # <<>>
    /\ Exits(trans.log) # {}
    /\ Entries(trans.log) # {}
    /\ Len(trans.log) >= 3

IsPrefix(s, t) == Len(s) <= Len(t) /\ SubSeq(t, 1, Len(s)) = s

\* The number of levels, counted from the root, up to the deepest level at
\* which the two chains hold the same state (0 if there is none).
CommonLevels(c1, c2) ==
    LET same == { l \in (DOMAIN c1) \cap (DOMAIN c2) : c1[l] = c2[l] }
    IN  IF same = {} THEN 0 ELSE CHOOSE l \in same : \A m \in same : m <= l

\* The exits of chain src below its first k levels, leaf first, followed by
\* the entries of chain dst below its first k levels, root side first.
ExitEntryPlan(src, dst, k) ==
    [n \in 1 .. (Len(src) - k) |->
        [k |-> "exit", s |-> src[Len(src) + 1 - n], l |-> Len(src) - n]]
    \o [n \in 1 .. (Len(dst) - k) |-> [k |-> "entry", s |-> dst[k + n], l |-> k + n - 1]]

\* C9: a doTransition to a state other than the current leaf exits exactly
\* the states of the current chain below the deepest level the current chain
\* and the target's chain share, then enters exactly the states of the
\* target's chain below that level; the shared ancestors are neither exited
\* nor entered.
C9_ExitsBelowCommonLevel ==
    (trans.op = "transition" /\ trans.tgt # trans.src[Len(trans.src)]) =>
        LET dst == ChainOf(trans.tgt)
            plan == ExitEntryPlan(trans.src, dst, CommonLevels(trans.src, dst))
        IN  /\ IsPrefix(trans.log, plan)
            /\ trans.done => trans.log = plan

\* A sibling-to-sibling transition has returned: one exit, one entry, at
\* least one shared ancestor.
C9_Witness ==
    /\ ub = "none"
    /\ trans.done
    /\ trans.op = "transition"
    /\ trans.tgt # trans.src[Len(trans.src)]
    /\ CommonLevels(trans.src, ChainOf(trans.tgt)) >= 1
    /\ Len(trans.log) = 2
    /\ trans.log[1].k = "exit"
    /\ trans.log[2].k = "entry"

\* C10: a doTransition whose target is the current leaf exits that leaf and
\* then enters it again, and exits or enters nothing else.
C10_SelfTransition ==
    (trans.op = "transition" /\ trans.tgt = trans.src[Len(trans.src)]) =>
        LET leaf == trans.tgt
            plan == << [k |-> "exit", s |-> leaf, l |-> Level(leaf)],
                       [k |-> "entry", s |-> leaf, l |-> Level(leaf)] >>
        IN  /\ IsPrefix(trans.log, plan)
            /\ trans.done => trans.log = plan

\* A transition of a non-root leaf to itself has returned.
C10_Witness ==
    /\ ub = "none"
    /\ trans.done
    /\ trans.op = "transition"
    /\ Len(trans.src) >= 2
    /\ trans.tgt = trans.src[Len(trans.src)]
    /\ Len(trans.log) = 2

\* The machine was started and not destroyed; it was never started; no call
\* into the machine is in progress.
Running == everStarted /\ life = "alive"
Unstarted == ~everStarted /\ life = "alive"
Quiescent == InApplication

\* The state objects held at levels 0 .. level of cur (<<>> for nullptr).
Objects(frames, cur) ==
    IF cur = nullptr THEN <<>> ELSE [l \in 1 .. (Level(cur) + 1) |-> frames[l].m_activeState]

\* C11: once a doTransition to a registered target has returned,
\* currentStateId() is the target, the descriptors recorded at levels 0 .. the
\* target's level are the target's ancestor chain from its root down to the
\* target, and each of these levels holds the object of its state; whenever
\* the machine is quiescent, the leaf and the chain are those of the target
\* of the last transition applied (or of setStartState, if none was).
C11_TransitionReachesTarget ==
    /\ (trans.op = "transition" /\ trans.done) =>
           /\ currentStateId = trans.tgt
           /\ Chain(m_stackFrames, m_currentInfo) = ChainOf(trans.tgt)
           /\ Objects(m_stackFrames, m_currentInfo) = ChainOf(trans.tgt)
    /\ (Quiescent /\ Running) =>
           /\ currentStateId = lastTrans.tgt
           /\ Chain(m_stackFrames, m_currentInfo) = ChainOf(lastTrans.tgt)

\* A transition from a root to a state at level 1 under another root has
\* returned.
C11_Witness ==
    /\ ub = "none"
    /\ trans.op = "transition"
    /\ trans.done
    /\ Len(trans.src) = 1
    /\ Level(trans.tgt) = 1
    /\ CommonLevels(trans.src, ChainOf(trans.tgt)) = 0
    /\ currentStateId = trans.tgt

\* C12: whenever a Running machine is quiescent, the descriptor recorded at
\* the leaf's level is the leaf, for every level i from 1 to the leaf's level
\* the descriptor recorded at level i has level i and has as parent the
\* descriptor recorded at level i - 1, the descriptor at level 0 has level 0,
\* and the chain has the leaf's level + 1 elements.
C12_ActiveChainInvariant ==
    (Quiescent /\ Running) =>
        /\ m_currentInfo # nullptr
        /\ stateInfo(m_stackFrames, Level(m_currentInfo)) = m_currentInfo
        /\ \A i \in 0 .. Level(m_currentInfo) :
               /\ stateInfo(m_stackFrames, i) # nullptr
               /\ Level(stateInfo(m_stackFrames, i)) = i
               /\ i > 0 => Parent(stateInfo(m_stackFrames, i)) = stateInfo(m_stackFrames, i - 1)
        /\ Len(ChainOf(m_currentInfo)) = Level(m_currentInfo) + 1
        /\ Len(Chain(m_stackFrames, m_currentInfo)) = Level(m_currentInfo) + 1

\* A machine is quiescent in a leaf at level 2 that a transition made while
\* an event was processed has reached.
C12_Witness ==
    /\ Quiescent /\ Running
    /\ lastTrans.ev > 0
    /\ m_currentInfo # nullptr
    /\ Level(m_currentInfo) = 2
    /\ lastTrans.tgt = m_currentInfo

\* The number of live state objects of level l: the object the slot holds, the
\* objects whose constructor is running (built in the storage of the level,
\* not yet in the slot) and the objects whose destructor is running (already
\* taken out of the slot).
LiveObjects(l) ==
    (IF l + 1 \in Occupied(m_stackFrames) THEN 1 ELSE 0)
    + Cardinality({ k \in DOMAIN callStack :
                      /\ callStack[k].pc \in {"entry", "exit"}
                      /\ Level(callStack[k].cb) = l })

Levels == 0 .. (Len(m_setup.m_objectSizes) - 1)

\* C13: at any time every level has at most one live state object; whenever
\* a Running machine is quiescent, the slot of level l holds an object exactly
\* when l is at most the leaf's level, and that object is the object of the
\* state recorded at level l.
C13_OneObjectPerLevel ==
    /\ \A l \in Levels : LiveObjects(l) <= 1
    /\ (Quiescent /\ Running) =>
           \A l \in Levels :
               /\ (getModelBase(m_stackFrames, l) # nullptr) <=> (l <= Level(m_currentInfo))
               /\ l <= Level(m_currentInfo) =>
                      getModelBase(m_stackFrames, l) = stateInfo(m_stackFrames, l)

\* A machine with three levels is quiescent in a root after a transition from
\* a leaf at level 2: the slots of levels 1 and 2 are empty again.
C13_Witness ==
    /\ Quiescent /\ Running
    /\ Len(m_stackFrames) = 3
    /\ lastTrans.ev > 0
    /\ Level(m_currentInfo) = 0
    /\ stateInfo(m_stackFrames, 2) # nullptr
    /\ Occupied(m_stackFrames) = {1}

\* The states with a live object that was completely constructed.
EnteredStates == { id \in StateIds : entered[id] > 0 }

\* C14: setStartState(id) on a machine that was never started runs no exit
\* action and enters the states of id's ancestor chain from the root down to
\* id, each once (level(id) + 1 entries); when it has returned,
\* currentStateId() is id and the entered states are those of the chain.
C14_StartEntersChain ==
    trans.op = "start" =>
        LET dst == ChainOf(trans.tgt)
            plan == ExitEntryPlan(<<>>, dst, 0)
        IN  /\ IsPrefix(trans.log, plan)
            /\ Exits(trans.log) = {}
            /\ \A id \in StateIds : entered[id] \in {0, 1}
            /\ trans.done =>
                   /\ trans.log = plan
                   /\ Len(trans.log) = Level(trans.tgt) + 1
                   /\ currentStateId = trans.tgt
                   /\ EnteredStates = { dst[l] : l \in DOMAIN dst }

\* setStartState with a state of level 2 has returned after three entries.
C14_Witness ==
    /\ ub = "none"
    /\ trans.op = "start"
    /\ trans.done
    /\ Level(trans.tgt) = 2
    /\ Len(trans.log) = 3
    /\ currentStateId = trans.tgt

\* The state classes setupStates() registered.
Registered == { T \in StateIds : findState(m_setup, T) # nullptr }

\* C15: in every quiescent state and for every registered state class T,
\* currentState<T>() is non-null exactly when T is the leaf, activeState<T>()
\* is non-null exactly when T is in the active chain, and a non-null result
\* is the live object of class T.
C15_StateQueries ==
    Quiescent =>
        \A T \in Registered :
            /\ (currentState(T) # nullptr) <=> (T = m_currentInfo)
            /\ (activeState(T) # nullptr) <=> InChain(T, Chain(m_stackFrames, m_currentInfo))
            /\ currentState(T) # nullptr =>
                   (currentState(T) = T /\ entered[T] = 1)
            /\ activeState(T) # nullptr =>
                   (activeState(T) = T /\ entered[T] = 1)

\* A quiescent machine in a leaf of level 1 with a registered state outside
\* the chain: the leaf answers both queries, its parent only activeState, the
\* outside state neither.
C15_Witness ==
    /\ Quiescent /\ Running
    /\ Level(m_currentInfo) = 1
    /\ currentState(m_currentInfo) = m_currentInfo
    /\ activeState(m_currentInfo) = m_currentInfo
    /\ currentState(Parent(m_currentInfo)) = nullptr
    /\ activeState(Parent(m_currentInfo)) = Parent(m_currentInfo)
    /\ \E T \in Registered :
           /\ ~InChain(T, Chain(m_stackFrames, m_currentInfo))
           /\ currentState(T) = nullptr
           /\ activeState(T) = nullptr

\* C16: on a machine on which setStartState has not been called,
\* currentStateId() is the null id, no state has been entered or exited, no
\* level holds an object, and currentState<T>() and activeState<T>() are null
\* for every state class T.
C16_UnstartedHasNoState ==
    Unstarted =>
        /\ currentStateId = nullStateId
        /\ \A id \in StateIds : entered[id] = 0
        /\ Occupied(m_stackFrames) = {}
        /\ \A k \in DOMAIN callStack : callStack[k].pc \notin {"handler", "entry", "exit"}
        /\ trans.log = <<>>
        /\ \A T \in StateIds : currentState(T) = nullptr /\ activeState(T) = nullptr

\* A machine that was never started has been handed events by postEvent and
\* addEvent and is quiescent.
C16_Witness ==
    /\ Unstarted
    /\ Quiescent
    /\ nPosted >= 2
    /\ lastRet.op = "postEvent"

\* cleanup has returned: ~FsmBaseMember is about to destroy the members, or
\* the machine is destroyed.
CleanupReturned == life = "dead" \/ (callStack # <<>> /\ Top.pc = "clEnd")

\* C17: the destruction of a started machine runs the exit actions of the
\* states of the active chain, leaf first and root last, and nothing else,
\* whether or not a transition request is pending; a state never has more
\* than one object, and when cleanup has returned every entry of the
\* machine's life has been matched by an exit: no state has an object, no
\* level holds one, and m_currentInfo is null.
C17_DestructionExitsChain ==
    /\ \A id \in StateIds : entered[id] \in {0, 1}
    /\ trans.op = "cleanup" =>
           LET plan == ExitEntryPlan(trans.src, <<>>, 0)
           IN  /\ IsPrefix(trans.log, plan)
               /\ CleanupReturned => trans.log = plan
    /\ CleanupReturned =>
           /\ EnteredStates = {}
           /\ Occupied(m_stackFrames) = {}
           /\ m_currentInfo = nullptr

\* A machine that was quiescent in a leaf of level 2, with no transition
\* request pending, has been destroyed: three exits.
C17_Witness ==
    /\ life = "dead"
    /\ ub = "none"
    /\ everStarted
    /\ nReq = 0
    /\ m_nextState = nullStateId
    /\ Len(trans.src) = 3
    /\ Len(trans.log) = 3
    /\ trans.log[1].l = 2
    /\ trans.log[3].l = 0

\* C18: the destruction of a machine that was never started is safe: cleanup
\* returns at its null check, so it runs no exit action and reads no state
\* descriptor (it never reaches its loop), no undefined behaviour occurs, and
\* no state was entered or exited.
C18_DestroyUnstarted ==
    (life # "alive" /\ ~everStarted) =>
        /\ ub = "none"
        /\ trans.op = "cleanup"
        /\ trans.log = <<>>
        /\ \A k \in DOMAIN callStack : callStack[k].pc \in {"cl", "clEnd"}
        /\ \A id \in StateIds : entered[id] = 0
        /\ m_currentInfo = nullptr

\* A machine that was never started has been destroyed.
C18_Witness ==
    /\ life = "dead"
    /\ ~everStarted
    /\ ub = "none"
    /\ callStack = <<>>
    /\ trans.done

\* The events waiting in the queue.
Queued == { Pending(m_eventQueue)[i] : i \in DOMAIN Pending(m_eventQueue) }

\* C19: when a postEvent call of the application on a machine that was never
\* started has returned, the event of the call is not in the queue (not
\* silently queued) and has not left the queue without reaching a handler
\* (not silently dropped): the call took no event.
C19_PostEventOnUnstartedRejected ==
    (Unstarted /\ lastRet.op = "postEvent") =>
        /\ lastRet.ev \notin Queued
        /\ ~(lastRet.ev # 0 /\ lastRet.ev \notin Queued /\ lastRet.ev \notin Delivered)

\* C20: a setStartState call on a started machine changes nothing: the leaf
\* stays the leaf, no state object is destroyed or overwritten, and no
\* undefined behaviour occurs; the machine never has a null current state
\* again once it was started.
C20_SecondStartRejected ==
    /\ trans.op = "restart" =>
           /\ ub = "none"
           /\ m_currentInfo = trans.src[Len(trans.src)]
           /\ Objects(m_stackFrames, m_currentInfo) = trans.src
    /\ Running => m_currentInfo # nullptr

\* An addState call has just been made for stateId (in the step from the
\* unprimed to the primed state).
Registering(stateId) ==
    /\ Len(regCalls') = Len(regCalls) + 1
    /\ regCalls'[Len(regCalls')][1] = stateId

\* C21: a pending transition request whose id is not a registered state is
\* never consumed without a failure: possiblyDoTransition does not clear such
\* a request and carry on as if nothing had been requested.
C21_UnknownTargetSurfaced ==
    [][~(/\ At("pdt")
         /\ m_nextState # nullStateId
         /\ findState(m_setup, m_nextState) = nullptr
         /\ m_nextState' = nullStateId
         /\ ub' = "none")]_vars

\* C22: an addState call for an id that is already registered leaves the
\* descriptor table unchanged (the call fails; the earlier descriptor is not
\* overwritten).
C22_DuplicateRejected ==
    [][\A id \in Registered : Registering(id) => m_setup' = m_setup]_vars

\* C23: after any sequence of addState calls every registered state is a
\* root (its own parent) of level 0, or has a registered parent and a level
\* one above its parent's.
C23_LevelIsParentLevelPlusOne ==
    \A s \in Registered :
        LET info == m_setup.m_states[s]
        IN  IF info.m_parentId = s THEN info.m_level = 0
            ELSE /\ info.m_parentId \in Registered
                 /\ info.m_level = m_setup.m_states[info.m_parentId].m_level + 1

\* C24: an addState call never shortens the size table nor lowers the size
\* recorded for a level, and at all times the size recorded for the level of
\* a registered state is at least the object size of that state.
C24_SizesOnlyGrow ==
    /\ [](\A s \in Registered :
             /\ Level(s) + 1 \in DOMAIN m_setup.m_objectSizes
             /\ m_setup.m_objectSizes[Level(s) + 1] >= SizeOf(s))
    /\ [][\A l \in DOMAIN m_setup.m_objectSizes :
             /\ l \in DOMAIN m_setup'.m_objectSizes
             /\ m_setup'.m_objectSizes[l] >= m_setup.m_objectSizes[l]]_vars

\* Three states were registered, a larger one before a smaller one of the
\* same level: the size of the level is still that of the larger one.
C24_Witness ==
    /\ ub = "none"
    /\ Cardinality(Registered) = 3
    /\ \E s, t \in Registered :
           /\ SizeOf(s) > SizeOf(t)
           /\ Level(s) = Level(t)
           /\ \E i, j \in DOMAIN regCalls : i < j /\ regCalls[i][1] = s /\ regCalls[j][1] = t
           /\ m_setup.m_objectSizes[Level(s) + 1] = SizeOf(s)

\* C25: an addState call whose parent id is not registered is detected as
\* an error: it causes no undefined behaviour and inserts no descriptor.
C25_UnknownParentDetected ==
    life = "setup" =>
        /\ ub = "none"
        /\ \A s \in Registered :
               m_setup.m_states[s].m_parentId = s
               \/ m_setup.m_states[s].m_parentId \in Registered

\* The next statement of the running operation is doExit(m_currentInfo).
DoExitNext ==
    /\ ub = "none"
    /\ callStack # <<>>
    /\ \/ Top.pc = "dt" /\ m_currentInfo = Top.nextInfo
       \/ Top.pc = "dtA" /\ Level(m_currentInfo) > Level(Top.nextInfo)
       \/ Top.pc = "dtC" /\ Top.nextInfo # m_currentInfo /\ Top.tlevel > 0
       \/ Top.pc = "dtD" /\ Top.nextInfo # m_currentInfo
       \/ Top.pc = "clLoop"

\* The activations in which a constructor is running (doEntry, before
\* m_activeState.reset(p)).
Constructing == { k \in DOMAIN callStack : callStack[k].pc = "entry" }

PostEventInProgress ==
    /\ callStack # <<>>
    /\ callStack[1].op = "processQueue"
    /\ callStack[1].outer = "postEvent"
    /\ everStarted

\* C27: every postEvent call of the application on a started machine
\* returns, whatever ids the handlers and the entry and exit actions request
\* transitions to (registered or not) and whatever they post.
C27_PostEventReturns == PostEventInProgress ~> (callStack = <<>>)

\* A postEvent call on a started machine has returned after a handler
\* requested a transition to an id that is not registered.
C27_Witness ==
    /\ lastRet.op = "postEvent"
    /\ lastRet.wasEmpty
    /\ callStack = <<>>
    /\ everStarted
    /\ nReq >= 1
    /\ lastTrans.ev = 0
    /\ \E e \in Delivered : e = lastRet.ev

\* FsmBaseMember::parent(int parentId): the model object one level below
\* m_currentInfo, or the runtime_error it throws (what # "").
parent(parentId) ==
    LET myInfo == m_currentInfo
    IN  IF Level(myInfo) = 0
        THEN [what |-> "No parent available for root states.", mb |-> nullptr]
        ELSE IF parentId # m_setup.m_states[myInfo].m_parentId
        THEN [what |-> "Type mismatch for parent state.", mb |-> nullptr]
        ELSE [what |-> "", mb |-> getModelBase(m_stackFrames, Level(myInfo) - 1)]

\* The state object whose handler, entry action or exit action is executing.
CallingState == Top.cb

\* C28: parent<P>() called by a live state X with registered parent P, from
\* its entry action, its exit action or its handler (X the leaf or an ancestor
\* handling a bubbled event), returns the live object of P, which is the
\* object held at level(X) - 1.
C28_ParentFromAnyLiveState ==
    (InCallback /\ m_currentInfo # nullptr /\ Level(CallingState) > 0)
        => /\ parent(m_setup.m_states[CallingState].m_parentId)
                = [what |-> "", mb |-> Parent(CallingState)]
           /\ getModelBase(m_stackFrames, Level(CallingState) - 1) = Parent(CallingState)

\* The frames in which an entry action (constructor) or an exit action
\* (destructor) of a state object is executing.
InAction == { k \in DOMAIN callStack : callStack[k].pc \in {"entry", "exit"} }

\* C29: while the entry or exit action of a state at level k runs, during
\* setStartState, a transition or the destruction of the machine, the levels
\* 0 .. k-1 hold the live objects of that state's ancestors.
C29_AncestorsLiveInActions ==
    ub = "none" =>
        \A k \in InAction :
            \A l \in 0 .. (Level(callStack[k].cb) - 1) :
                getModelBase(m_stackFrames, l) = ChainOf(callStack[k].cb)[l + 1]

\* The entry action of a level-2 state runs in a transition that has exited
\* a state of the old chain.
C29_Witness ==
    /\ ub = "none"
    /\ callStack # <<>>
    /\ Top.pc = "entry"
    /\ Level(Top.cb) = 2
    /\ trans.op = "transition"
    /\ Exits(trans.log) # {}

\* The transition in progress (or just done) targets a proper ancestor of the
\* leaf it started from.
AncestorTransition ==
    /\ trans.op = "transition"
    /\ Len(trans.src) > Level(trans.tgt) + 1
    /\ trans.src[Level(trans.tgt) + 1] = trans.tgt

\* C30: a transition to a proper ancestor of the leaf only exits, deepest
\* first, the states below the target; nothing is entered, the target is
\* neither exited nor entered again, and it is the leaf afterwards.
C30_TransitionToAncestor ==
    (ub = "none" /\ AncestorTransition) =>
        /\ Entries(trans.log) = {}
        /\ Len(trans.log) <= Len(trans.src) - Level(trans.tgt) - 1
        /\ \A i \in DOMAIN trans.log :
              /\ trans.log[i].s = trans.src[Len(trans.src) - i + 1]
              /\ trans.log[i].l = Len(trans.src) - i
        /\ getModelBase(m_stackFrames, Level(trans.tgt)) = trans.tgt
        /\ entered[trans.tgt] = 1
        /\ trans.done =>
              /\ Len(trans.log) = Len(trans.src) - Level(trans.tgt) - 1
              /\ m_currentInfo = trans.tgt

\* A transition from a level-2 leaf to its level-0 ancestor is done: two
\* exits, no entry.
C30_Witness ==
    /\ ub = "none"
    /\ AncestorTransition
    /\ trans.done
    /\ Len(trans.src) = 3
    /\ Level(trans.tgt) = 0
    /\ Len(trans.log) = 2
    /\ m_currentInfo = trans.tgt

\* The handler walk of the event being dispatched has ended and no handler
\* called transition().
WalkEndedWithoutRequest ==
    /\ At("pdt")
    /\ disp.cur # nullptr
    /\ disp.walkLast = nullStateId

\* processEvent returns to processQueue with the chain, the slots and the
\* state objects of the start of the dispatch; nothing was entered or exited.
DispatchLeftChain ==
    /\ Top'.pc = "popq"
    /\ m_stackFrames' = disp.frames
    /\ m_currentInfo' = disp.cur
    /\ entered' = entered
    /\ findStateId(m_currentInfo') = findStateId(disp.cur)

\* C31 as stated: the dispatch of an event in which no handler requested a
\* transition leaves the active chain, every slot and every state object as
\* they were; nothing is entered or exited and currentStateId() is unchanged.
C31_NoRequestNoChange ==
    [][WalkEndedWithoutRequest => DispatchLeftChain]_vars

\* C31: the same, for a dispatch that started with an empty m_nextState: a
\* request left by an entry action of setStartState is applied at the end of
\* the next dispatched event although no handler asked for a transition.
C31_NoRequestNoPendingNoChange ==
    [][(WalkEndedWithoutRequest /\ m_nextState = nullStateId) => DispatchLeftChain]_vars

\* The dispatch of an event to a non-root leaf, bubbled to its parent, has
\* ended without a request and without a transition.
C31_Witness ==
    /\ At("popq")
    /\ disp.ev # 0
    /\ disp.walkLast = nullStateId
    /\ disp.first = nullptr
    /\ ~disp.actReq
    /\ m_nextState = nullStateId
    /\ m_currentInfo # nullptr
    /\ Level(m_currentInfo) >= 1
    /\ lastTrans.ev = 0
    /\ \E e \in Delivered : e = disp.ev

\* processQueue pops the event it has just passed to processEvent, on a
\* machine that has been started and is alive.
PopsOnRunning ==
    /\ At("popq")
    /\ everStarted
    /\ life = "alive"
    /\ m_eventQueue' # m_eventQueue

\* C32: no event reaches a leaf handler twice, and no event is taken off the
\* queue of a started machine without having reached a leaf handler, whatever
\* calls of postEvent, addEvent and processQueue the application and the
\* state classes make.
C32_DeliveredExactlyOnce ==
    /\ [](\A i, j \in DOMAIN deliv : i # j => deliv[i] # deliv[j])
    /\ [][PopsOnRunning => \E i \in DOMAIN deliv : deliv[i] = Top.ev]_vars

\* C33: after every sequence of push, pop and pop_back (the last two on a
\* queue that is not empty) m_headPos <= m_store.size(); m_store is empty and
\* m_headPos is 0 exactly when no element is pending; empty() is true iff
\* size() is 0.
C33_VecQueueInvariants ==
    /\ m_eventQueue.m_headPos <= Len(m_eventQueue.m_store)
    /\ (m_eventQueue.m_store = <<>> /\ m_eventQueue.m_headPos = 0) <=> (ideal.seq = <<>>)
    /\ m_eventQueue.m_store = <<>> => m_eventQueue.m_headPos = 0
    /\ VecQueue_empty(m_eventQueue) <=> (VecQueue_size(m_eventQueue) = 0)

\* A queue that was popped from has been emptied by pop_back: check_empty
\* found the head position at the end of the store and reset both.
C33_Witness ==
    /\ ideal.pops >= 1
    /\ ideal.popBacks >= 1
    /\ nPosted = ideal.pops + ideal.popBacks
    /\ VecQueue_empty(m_eventQueue)
    /\ m_eventQueue.m_headPos = 0

\* C34: after any sequence of push and pop calls (pop on a queue that is not
\* empty) the queue holds what an ideal FIFO sequence holds, in the same
\* order: front() is the oldest element pushed and not popped, size() is the
\* number of pushes minus the number of pops, also after push has erased the
\* consumed prefix.
C34_IdealFifo ==
    ideal.popBacks = 0 =>
        /\ Pending(m_eventQueue) = ideal.seq
        /\ ideal.seq = [i \in 1 .. (nPosted - ideal.pops) |-> ideal.pops + i]
        /\ VecQueue_size(m_eventQueue) = nPosted - ideal.pops
        /\ ideal.seq # <<>> =>
              /\ FrontInside(m_eventQueue)
              /\ VecQueue_front(m_eventQueue) = ideal.pops + 1

\* A push has erased the consumed prefix while elements were pending.
C34_Witness ==
    /\ ideal.popBacks = 0
    /\ ideal.renorms >= 1
    /\ m_eventQueue.m_headPos = 0
    /\ Len(ideal.seq) >= 2
    /\ VecQueue_front(m_eventQueue) = ideal.pops + 1

\* The ids of a tree in pre-order: the node, then its sub-nodes left to right.
RECURSIVE PreOrder(_)
RECURSIVE PreOrderPack(_)
PreOrderPack(nodes) ==
    IF nodes = <<>> THEN <<>> ELSE PreOrder(Head(nodes)) \o PreOrderPack(Tail(nodes))
PreOrder(node) == <<node.id>> \o PreOrderPack(node.Nodes)

\* The id of the state enclosing the state with this id; the root's own id.
EnclosingId(id) == IF id = 1 THEN 1 ELSE id \div (MaxNodes + 1)

\* C35: in the tables of FsmStatic the states are indexed in pre-order; the
\* root has index 0, parentIndex 0 and level 0; every other index i has
\* parentIndex[i] < i, the index of its enclosing state, and levelIndex[i] =
\* levelIndex[parentIndex[i]] + 1; maxLevel is the largest level and
\* maxStackSize is maxLevel + 1.
C35_StaticTable ==
    fsmStatic.done = {"index2Id", "parentIndex", "levels"} =>
        LET n == stateNo(fsmStatic.Root)
        IN  /\ DOMAIN fsmStatic.index2Id = 0 .. (n - 1)
            /\ \A i \in 0 .. (n - 1) : fsmStatic.index2Id[i] = PreOrder(fsmStatic.Root)[i + 1]
            /\ fsmStatic.parentIndex[0] = 0
            /\ levelIndex[0] = 0
            /\ \A i \in 1 .. (n - 1) :
                  /\ fsmStatic.parentIndex[i] < i
                  /\ fsmStatic.index2Id[fsmStatic.parentIndex[i]]
                        = EnclosingId(fsmStatic.index2Id[i])
                  /\ levelIndex[i] = levelIndex[fsmStatic.parentIndex[i]] + 1
            /\ \A i \in 0 .. (n - 1) : levelIndex[i] <= maxLevel
            /\ \E i \in 0 .. (n - 1) : levelIndex[i] = maxLevel
            /\ maxStackSize = maxLevel + 1

\* The tables of the tree of testStateChart2 (root with a sub-node of two
\* states and a further state) are initialised.
C35_Witness ==
    /\ fsmStatic.done = {"index2Id", "parentIndex", "levels"}
    /\ stateNo(fsmStatic.Root) = 5
    /\ fsmStatic.parentIndex = (0 :> 0 @@ 1 :> 0 @@ 2 :> 1 @@ 3 :> 1 @@ 4 :> 0)
    /\ levelIndex = (0 :> 0 @@ 1 :> 1 @@ 2 :> 2 @@ 3 :> 2 @@ 4 :> 1)
    /\ maxLevel = 2
    /\ maxStackSize = 3

\* processEvent is applying, or has just applied, a transition of the event in
\* dispatch: doTransition is running or has returned to possiblyDoTransition.
TransitionPhase ==
    /\ ub = "none"
    /\ callStack # <<>>
    /\ Top.op = "processQueue"
    /\ disp.first # nullptr

\* doTransition has returned to the loop of possiblyDoTransition and an entry
\* or exit action it ran has requested a registered state.
ActionRequestPending ==
    /\ TransitionPhase
    /\ Top.pc = "pdt"
    /\ disp.actLast # nullStateId
    /\ findState(m_setup, disp.actLast) # nullptr

\* C36: a transition requested by an entry or exit action while a transition
\* is applied stays in m_nextState until that transition is complete, the
\* last request replacing earlier ones; possiblyDoTransition then applies it
\* in the same processEvent call, before the event is popped and before any
\* other event is dispatched.
C36_ActionRequestApplied ==
    /\ [](TransitionPhase => m_nextState = disp.actLast)
    /\ [][ActionRequestPending =>
            /\ Top'.pc = "dt"
            /\ Top'.nextInfo = findState(m_setup, disp.actLast)
            /\ Top'.ev = Top.ev
            /\ Len(callStack') = Len(callStack)
            /\ m_eventQueue' = m_eventQueue
            /\ deliv' = deliv]_vars
    /\ []((At("pdt") /\ trans.op = "transition" /\ trans.done) => m_currentInfo = trans.tgt)

\* The handler's transition of an event is done, an entry or exit action it
\* ran requested another state, and that second transition, started from the
\* first one's target, is done too while the event is still in dispatch.
C36_Witness ==
    /\ At("pdt")
    /\ trans.op = "transition"
    /\ trans.done
    /\ nReq = 3
    /\ disp.walkLast # nullStateId
    /\ disp.first # trans.tgt
    /\ disp.firstLeaf = disp.first
    /\ m_currentInfo = trans.tgt
    /\ trans.src[Len(trans.src)] = disp.first
    /\ m_nextState = nullStateId
    /\ Len(deliv) = 1

\* setStartState has returned to the application, which has made no other
\* call since.
StartReturned == InApplication /\ lastRet.op = "setStartState"

\* The handler walk of an event has ended with a registered state in
\* m_nextState.
WalkEndedWithRequest ==
    /\ At("pdt")
    /\ disp.cur # nullptr
    /\ m_nextState # nullStateId
    /\ findState(m_setup, m_nextState) # nullptr

\* C37: when setStartState(id) returns, the leaf is id and only entries were
\* made, also if an entry action requested a transition: the last such
\* request is pending in m_nextState.  m_nextState is then changed only by a
\* transition() call or by possiblyDoTransition, which at the end of the
\* handler walk of the next event starts the transition to the state it holds.
C37_StartLeavesRequestPending ==
    /\ [](StartReturned =>
            /\ m_currentInfo = trans.tgt
            /\ trans.op = "start"
            /\ Exits(trans.log) = {}
            /\ Len(trans.log) = Level(trans.tgt) + 1
            /\ m_nextState = disp.actLast)
    /\ [][(ub = "none" /\ m_nextState' # m_nextState) =>
              (nReq' = nReq + 1 \/ At("pdt"))]_vars
    /\ [][WalkEndedWithRequest =>
              /\ Top'.pc = "dt"
              /\ Top'.nextInfo = findState(m_setup, m_nextState)]_vars

\* A state entered by setStartState requested another state in its entry
\* action; no handler of the first event requested anything, and the
\* transition to the requested state has been made at the end of that event.
C37_Witness ==
    /\ At("pdt")
    /\ trans.op = "transition"
    /\ trans.done
    /\ disp.walkLast = nullStateId
    /\ disp.actLast = nullStateId
    /\ ~disp.actReq
    /\ Len(deliv) = 1
    /\ nReq >= 1
    /\ m_currentInfo = trans.tgt
    /\ trans.src[Len(trans.src)] # trans.tgt

\* C38: the dispatcher never reaches emitEvent with an empty slot, and every
\* handler that runs belongs to the object held by the slot of its level, a
\* level of the active chain.
C38_HandlerOnLiveObject ==
    /\ ub # "emitEvent: null state object"
    /\ At("handler") =>
          /\ Top.cb # nullptr
          /\ Top.level <= Level(m_currentInfo)
          /\ getModelBase(m_stackFrames, Top.level) = Top.cb
          /\ Chain(m_stackFrames, m_currentInfo)[Top.level + 1] = Top.cb

\* ---------------------------------------------------------------------------
\* FsmBaseSupport (StateChart.cpp): the transition on two descriptor vectors,
\* m_currentInfos and m_nextInfos, computed on the active chain and the target
\* of a transition of FsmBaseMember.
\* ---------------------------------------------------------------------------
\* "m_nextInfos.resize(level + 1)": the vector keeps what it held, which is
\* the chain entered last.
resize(infos, n) == [l \in 1 .. n |-> IF l <= Len(infos) THEN infos[l] ELSE nullptr]

\* "while (level > 0) { si = findState(si->m_parentId); level = si->m_level;
\*  m_nextInfos[level] = si; }"
RECURSIVE populateNextInfos_loop(_, _)
populateNextInfos_loop(infos, si) ==
    IF Level(si) > 0
    THEN LET p == Parent(si)
         IN  populateNextInfos_loop([infos EXCEPT ![Level(p) + 1] = p], p)
    ELSE infos

populateNextInfos(infos, nextInfo) ==
    populateNextInfos_loop(
        [resize(infos, Level(nextInfo) + 1) EXCEPT ![Level(nextInfo) + 1] = nextInfo],
        nextInfo)

\* The length of the common prefix: "while (level < srcSize && level < dstSize
\* && m_currentInfos[level] == m_nextInfos[level]) level++;"
RECURSIVE firstThatDiffer_loop(_, _, _)
firstThatDiffer_loop(cur, nxt, level) ==
    IF level < Len(cur) /\ level < Len(nxt) /\ cur[level + 1] = nxt[level + 1]
    THEN firstThatDiffer_loop(cur, nxt, level + 1)
    ELSE level

\* findFirstThatDiffer without the case of a transition to self.
findFirstThatDiffer_noSelf(cur, nxt) == firstThatDiffer_loop(cur, nxt, 0)

\* "if (m_currentInfos.back() == m_nextInfos.back())
\*      return m_currentInfos.back()->m_level;"
findFirstThatDiffer(cur, nxt) ==
    IF cur[Len(cur)] = nxt[Len(nxt)]
    THEN Level(cur[Len(cur)])
    ELSE firstThatDiffer_loop(cur, nxt, 0)

\* FsmBaseSupport::doExit(bottomLevel): the exits made, top level first.
RECURSIVE Support_doExit(_, _)
Support_doExit(cur, bottomLevel) ==
    IF Len(cur) > bottomLevel
    THEN <<[k |-> "exit", s |-> cur[Len(cur)], l |-> Len(cur) - 1]>>
         \o Support_doExit(SubSeq(cur, 1, Len(cur) - 1), bottomLevel)
    ELSE <<>>

\* FsmBaseSupport::doEntry: "while (m_currentInfos.size() != m_nextInfos.size())",
\* entering m_nextInfos[m_currentInfos.size()].
RECURSIVE Support_doEntry(_, _)
Support_doEntry(size, nxt) ==
    IF size < Len(nxt)
    THEN <<[k |-> "entry", s |-> nxt[size + 1], l |-> size]>> \o Support_doEntry(size + 1, nxt)
    ELSE <<>>

\* FsmBaseSupport::doTransition on a machine whose m_currentInfos is cur: the
\* exits and entries made and the m_currentInfos it ends with.
Support_doTransition(cur, nextInfo) ==
    LET nxt == populateNextInfos(cur, nextInfo)
        bottomLevel == IF cur # <<>> THEN findFirstThatDiffer(cur, nxt) ELSE 0
        kept == IF Len(cur) > bottomLevel THEN bottomLevel ELSE Len(cur)
    IN  [log |-> Support_doExit(cur, bottomLevel) \o Support_doEntry(kept, nxt),
         chain |-> nxt]

\* C39: the exits and entries of a transition of FsmBaseMember are, while it
\* runs, a prefix of those FsmBaseSupport::doTransition makes from the same
\* chain to the same target; when it has returned they are the same sequence
\* and the active chain is the chain FsmBaseSupport ends with.
C39_SameTransition ==
    (ub = "none" /\ trans.op = "transition") =>
        LET support == Support_doTransition(trans.src, trans.tgt)
        IN  /\ IsPrefix(trans.log, support.log)
            /\ trans.done =>
                  /\ trans.log = support.log
                  /\ Chain(m_stackFrames, m_currentInfo) = support.chain

\* A transition from a level-1 leaf to another root has returned: both
\* implementations exit two states and enter one.
C39_Witness ==
    /\ ub = "none"
    /\ trans.op = "transition"
    /\ trans.done
    /\ Len(trans.src) = 2
    /\ Level(trans.tgt) = 0
    /\ Len(Support_doTransition(trans.src, trans.tgt).log) = 3
    /\ trans.log = Support_doTransition(trans.src, trans.tgt).log

====
